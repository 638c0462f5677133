------------------------------ MODULE Programs ------------------------------
(***************************************************************************)
(* Compositor programs: nvr/src/compositor/mod.rs with the Director of     *)
(* crates/nvr-compositor.                                                  *)
(*                                                                         *)
(* API calls create, change and remove programs; every change ends with    *)
(* persist_all, which writes the list of all live programs to one row of   *)
(* the database.  At start restore_all creates the programs of that row    *)
(* again, one after the other, beside the API.  The map of programs, the   *)
(* sources of a program, its pool and its region slots each have a lock of *)
(* their own, so a call is several steps.                                  *)
(*                                                                         *)
(* A program is [sources, regions]: the ids of its sources, and the source *)
(* each region shows.  Geometry, frame rate and URLs are data.             *)
(***************************************************************************)
EXTENDS Naturals, Sequences, FiniteSets

CONSTANTS
  Ids,         \* program ids, the keys of COMPOSITORS
  Srcs,        \* source ids
  Calls,       \* bound: API calls, each used once
  Boot,        \* the task that runs restore_all
  Blank,       \* the empty source id: a black region
  None,
  Requests,    \* what the calls may ask: [op, id, prog, src, at]
  Flaky,       \* sources that may be out of reach when they are started
  Starts,      \* how the model may begin: what the database holds, and the calls
               \* that will be made
  MaxBoots     \* bound: starts of the process

Procs   == Calls \cup {Boot}
Program == [sources : Seq(Srcs), regions : Seq(Srcs \cup {Blank})]
NoProgram == [sources |-> <<>>, regions |-> <<>>]
Request == [op : {"create", "remove", "switch", "relayout", "add", "drop"},
            id : Ids, prog : Program, src : Srcs \cup {Blank}, at : Nat \ {0}]
Elems(s) == {s[i] : i \in DOMAIN s}

ASSUME ProgramsAssumption ==
  /\ Boot \notin Calls /\ None \notin Program \cup Request \cup Procs
  /\ Requests \subseteq Request /\ \A r \in Requests : r.op = "add" => r.src \in Srcs
  /\ Starts \subseteq [row : [Ids -> Program \cup {None}], calls : SUBSET Calls]
  /\ Flaky \subseteq Srcs
  /\ MaxBoots \in Nat \ {0}

VARIABLES
  process,   \* "up", "stopping" (main's teardown has run shutdown), "down"
  boots,     \* starts of the process so far
  live,      \* COMPOSITORS: id -> entry, 0 without one
  entry,     \* the CompositorEntry objects of this process
  row,       \* the KV row: id -> program
  call,      \* a call: where it stands, what it asks, the entry it has, the
             \* generation of the slot it picked, what its persist_all has read
  saved,     \* programs restore_all has still to create
  (* Observation only: nothing below is read by an action's guard. *)
  owed,      \* programs whose creation was answered, not asked to be removed since
  raced,     \* programs that two calls, or a call and shutdown, were busy
             \* with at once, or a call that was dropped
  torn,      \* programs that lost a source while a persist_all had read their
             \* regions and not yet their sources
  clean      \* no two of calls, restore_all and shutdown have overlapped, no call
             \* was dropped, no save failed, restore_all was not cut short

vars == <<process, boots, live, entry, row, call, saved, owed, raced, torn, clean>>
obs  == <<owed, raced, torn>>

Handle == [src : Srcs, kind : {"hot", "retry", "off"}]
Entry == [id : Ids, handles : Seq(Handle), pool : SUBSET Srcs,
          slots : Seq(Srcs \cup {Blank}), gen : Nat, running : BOOLEAN,
          lock : Procs \cup {None}]

NoRow == [id \in Ids |-> None]
Idle(at) == [pc |-> at, job |-> None, my |-> 0, gen |-> 0, snap |-> NoRow]

\* What a program without explicit regions gets: a tile per source.
Regions(p) == IF p.regions = <<>> THEN p.sources ELSE p.regions

\* create's validation of a layout, and relayout's.
Valid(regions, known) == Elems(regions) \subseteq known \cup {Blank}

\* What is in the row can be created again; the row the model begins with is one
\* that calls one at a time have left.
Restorable(p) == p.sources # <<>> /\ Valid(p.regions, Elems(p.sources))

ASSUME StartsAssumption ==
  \A s \in Starts : \A id \in Ids : s.row[id] # None => Restorable(s.row[id])

SourceIds(e) == [i \in DOMAIN entry[e].handles |-> entry[e].handles[i].src]

At(p, pc)  == call[p].pc = pc
Busy(p)    == call[p].pc \notin {"idle", "next", "done"}
Id(p)      == call[p].job.id
Mine(p)    == entry[call[p].my]
Target(p)  == live[Id(p)]

Goto(p, pc) == call' = [call EXCEPT ![p].pc = pc] /\ UNCHANGED clean
GotoWith(p, pc, e) == call' = [call EXCEPT ![p].pc = pc, ![p].my = e] /\ UNCHANGED clean

\* What a call that gives up leaves.  restore_all tries the program again until
\* RESTORE_RETRY_BUDGET is used up.
Fail(p) ==
  \/ /\ p # Boot
     /\ call' = [call EXCEPT ![p] = Idle("done")] /\ UNCHANGED clean
  \/ p = Boot /\ Goto(p, "create")
  \/ p = Boot /\ call' = [call EXCEPT ![p] = Idle("next")] /\ clean' = FALSE

Init ==
  /\ process = "up" /\ boots = 1
  /\ live = [id \in Ids |-> 0] /\ entry = <<>>
  /\ \E s \in Starts :
       /\ row = s.row
       /\ call = [p \in Procs |-> Idle(IF p = Boot THEN "next"
                                       ELSE IF p \in s.calls THEN "idle" ELSE "done")]
  /\ saved = row
  /\ owed = {id \in Ids : row[id] # None}
  /\ raced = {} /\ torn = {} /\ clean = TRUE

-----------------------------------------------------------------------------
(* The beginning of a call, and of restore_all's next create.  The server   *)
(* takes no new request once the process is stopping.                       *)
Start(p, r) ==
  LET others == {q \in Procs \ {p} : Busy(q)}
  IN /\ call' = [call EXCEPT ![p].pc = r.op, ![p].job = r]
     /\ raced' = raced \cup (IF \E q \in others : Id(q) = r.id THEN {r.id} ELSE {})
     /\ clean' = (clean /\ others = {})

Begin(c, r) ==
  /\ process = "up" /\ At(c, "idle")
  /\ Start(c, r)
  /\ owed' = IF r.op = "remove" THEN owed \ {r.id} ELSE owed
  /\ UNCHANGED <<process, boots, live, entry, row, saved, torn>>

RestoreNext(id) ==
  /\ process # "down" /\ At(Boot, "next") /\ saved[id] # None
  /\ saved' = [saved EXCEPT ![id] = None]
  /\ Start(Boot, [op |-> "create", id |-> id, prog |-> saved[id], src |-> Blank, at |-> 1])
  /\ UNCHANGED <<process, boots, live, entry, row, owed, torn>>

\* A call that needs the program and does not find it.
Missing(p) ==
  /\ call[p].pc \in {"remove", "switch", "relayout", "add", "drop"} /\ Target(p) = 0
  /\ Fail(p)
  /\ UNCHANGED <<process, boots, live, entry, row, saved, obs>>

\* The client goes away: the handler's future is dropped at an await.
Abandon(c) ==
  /\ call[c].pc \in {"opening", "insert", "adding", "save"}
  /\ call' = [call EXCEPT ![c] = Idle("done")]
  /\ clean' = FALSE /\ raced' = raced \cup {Id(c)}
  /\ UNCHANGED <<process, boots, live, entry, row, saved, owed, torn>>

-----------------------------------------------------------------------------
(* create *)

CreateCheck(p) ==
  LET r == call[p].job
      ok == /\ Target(p) = 0 /\ r.prog.sources # <<>>
            /\ Valid(Regions(r.prog), Elems(r.prog.sources))
  IN /\ At(p, "create")
     /\ (ok /\ Goto(p, "opening")) \/ (~ok /\ Fail(p))
     /\ UNCHANGED <<process, boots, live, entry, row, saved, obs>>

NewEntry(r, online) ==
  [id |-> r.id,
   handles |-> [i \in DOMAIN r.prog.sources |->
                  [src |-> r.prog.sources[i],
                   kind |-> IF r.prog.sources[i] \in online THEN "hot" ELSE "retry"]],
   pool |-> Elems(r.prog.sources), slots |-> Regions(r.prog),
   gen |-> 0, running |-> TRUE, lock |-> None]

\* Every source is started; the ones that cannot be reached go on trying.  With
\* none there is nothing to take the encoder's template from.
CreateOpen(p, online) ==
  LET r == call[p].job IN
  /\ At(p, "opening")
  /\ online \subseteq Elems(r.prog.sources) /\ Elems(r.prog.sources) \ online \subseteq Flaky
  /\ \/ online = {} /\ Fail(p) /\ UNCHANGED entry
     \/ /\ online # {}
        /\ GotoWith(p, "insert", Len(entry) + 1)
        /\ entry' = Append(entry, NewEntry(r, online))
  /\ UNCHANGED <<process, boots, live, row, saved, obs>>

\* persist_all holds the map's read lock while it looks at the entries.
Unread == \A p \in Procs : ~At(p, "sources")

\* The Arc an insert overwrites is dropped: Source stops on drop, a Compositor
\* and a spawn_reconnecting loop do not.
Dropped(e) ==
  [e EXCEPT !.handles = [i \in DOMAIN e.handles |->
      IF e.handles[i].kind = "hot" THEN [e.handles[i] EXCEPT !.kind = "off"]
      ELSE e.handles[i]]]

CreateInsert(p) ==
  LET id == Id(p) IN
  /\ At(p, "insert") /\ Unread
  /\ live' = [live EXCEPT ![id] = call[p].my]
  /\ entry' = IF live[id] = 0 THEN entry ELSE [entry EXCEPT ![live[id]] = Dropped(@)]
  /\ Goto(p, "regions")
  /\ UNCHANGED <<process, boots, row, saved, obs>>

-----------------------------------------------------------------------------
(* remove and shutdown *)

\* Mutant: the tokens of the reconnecting sources are not cancelled.
M_StoppedRetries(e) == [Dropped(e) EXCEPT !.running = FALSE]

Stopped(e) ==
  [e EXCEPT !.running = FALSE,
            !.handles = [i \in DOMAIN e.handles |-> [e.handles[i] EXCEPT !.kind = "off"]]]

Remove(p) ==
  LET e == Target(p) IN
  /\ At(p, "remove") /\ e # 0 /\ Unread /\ entry[e].lock = None
  /\ live' = [live EXCEPT ![Id(p)] = 0]
  /\ entry' = [entry EXCEPT ![e] = Stopped(@)]
  /\ Goto(p, "regions")
  /\ UNCHANGED <<process, boots, row, saved, obs>>

Unlocked == \A id \in Ids : live[id] # 0 => entry[live[id]].lock = None

\* Mutant: shutdown goes through remove, which persists what is left.
M_ShutdownPersists ==
  /\ process = "up" /\ Unread /\ Unlocked
  /\ process' = "stopping" /\ live' = [id \in Ids |-> 0] /\ row' = NoRow
  /\ entry' = [e \in DOMAIN entry |->
                 IF \E id \in Ids : live[id] = e THEN Stopped(entry[e]) ELSE entry[e]]
  /\ clean' = (clean /\ saved = NoRow /\ \A p \in Procs : ~Busy(p))
  /\ raced' = raced \cup {Id(p) : p \in {q \in Procs : Busy(q)}}
  /\ UNCHANGED <<boots, call, saved, owed, torn>>

Shutdown ==
  /\ process = "up" /\ Unread /\ Unlocked
  /\ process' = "stopping"
  /\ live' = [id \in Ids |-> 0]
  /\ entry' = [e \in DOMAIN entry |->
                 IF \E id \in Ids : live[id] = e THEN Stopped(entry[e]) ELSE entry[e]]
  /\ clean' = (clean /\ saved = NoRow /\ \A p \in Procs : ~Busy(p))
  /\ raced' = raced \cup {Id(p) : p \in {q \in Procs : Busy(q)}}
  /\ UNCHANGED <<boots, row, call, saved, owed, torn>>

\* exit() after the teardown, or a crash at any time.
Down ==
  /\ process # "down"
  /\ process' = "down"
  /\ clean' = (clean /\ saved = NoRow /\ \A p \in Procs : ~Busy(p))
  /\ live' = [id \in Ids |-> 0] /\ entry' = <<>>
  /\ call' = [p \in Procs |-> Idle(IF p # Boot /\ At(p, "idle") THEN "idle" ELSE "done")]
  /\ saved' = NoRow
  /\ UNCHANGED <<boots, row, obs>>

\* main starts again; restore_all loads the row.
Up ==
  /\ process = "down" /\ boots < MaxBoots
  /\ process' = "up" /\ boots' = boots + 1
  /\ saved' = row /\ call' = [call EXCEPT ![Boot].pc = "next"]
  /\ UNCHANGED <<live, entry, row, obs, clean>>

-----------------------------------------------------------------------------
(* switch and relayout *)

\* Director::switch looks in the pool, then clones the handle of the slot ...
Switch(p) ==
  LET r == call[p].job  e == Target(p)
      ok == r.src \in entry[e].pool \cup {Blank} /\ r.at <= Len(entry[e].slots)
  IN /\ At(p, "switch") /\ e # 0
     /\ \/ /\ ok /\ UNCHANGED clean
           /\ call' = [call EXCEPT ![p].pc = "slot", ![p].my = e, ![p].gen = entry[e].gen]
        \/ ~ok /\ Fail(p)
     /\ UNCHANGED <<process, boots, live, entry, row, saved, obs>>

\* ... and writes to it, which nobody sees if a relayout has come in between.
SwitchSlot(p) ==
  LET r == call[p].job IN
  /\ At(p, "slot")
  /\ entry' = IF Mine(p).gen = call[p].gen
              THEN [entry EXCEPT ![call[p].my].slots[r.at] = r.src] ELSE entry
  /\ Goto(p, "regions")
  /\ UNCHANGED <<process, boots, live, row, saved, obs>>

Relayout(p) ==
  LET r == call[p].job  e == Target(p)
      ok == r.prog.regions # <<>> /\ Valid(r.prog.regions, Elems(SourceIds(e)))
  IN /\ At(p, "relayout") /\ e # 0 /\ entry[e].lock = None
     /\ (ok /\ GotoWith(p, "layout", e)) \/ (~ok /\ Fail(p))
     /\ UNCHANGED <<process, boots, live, entry, row, saved, obs>>

RelayoutApply(p) ==
  /\ At(p, "layout")
  /\ entry' = [entry EXCEPT ![call[p].my].slots = call[p].job.prog.regions,
                            ![call[p].my].gen = @ + 1]
  /\ Goto(p, "regions")
  /\ UNCHANGED <<process, boots, live, row, saved, obs>>

-----------------------------------------------------------------------------
(* add_source and remove_source *)

AddSource(p) ==
  LET e == Target(p)
      ok == call[p].job.src \notin Elems(SourceIds(e))
  IN /\ At(p, "add") /\ e # 0 /\ entry[e].lock = None
     /\ (ok /\ GotoWith(p, "adding", e)) \/ (~ok /\ Fail(p))
     /\ UNCHANGED <<process, boots, live, entry, row, saved, obs>>

\* The source is started, hot or retrying, and put in the pool ...
AddPool(p) ==
  /\ At(p, "adding")
  /\ entry' = [entry EXCEPT ![call[p].my].pool = @ \cup {call[p].job.src}]
  /\ Goto(p, "push")
  /\ UNCHANGED <<process, boots, live, row, saved, obs>>

\* ... and its handle in the list.
AddPush(p, kind) ==
  /\ At(p, "push") /\ Mine(p).lock = None
  /\ entry' = [entry EXCEPT ![call[p].my].handles =
                 Append(@, [src |-> call[p].job.src, kind |-> kind])]
  /\ Goto(p, "regions")
  /\ UNCHANGED <<process, boots, live, row, saved, obs>>

\* remove_source keeps the lock of the list from its checks to the end.
RemoveSource(p) ==
  LET r == call[p].job  e == Target(p)
      ok == r.src \in Elems(SourceIds(e)) /\ Len(entry[e].handles) > 1
  IN /\ At(p, "drop") /\ e # 0 /\ entry[e].lock = None
     /\ \/ /\ ok /\ GotoWith(p, "dropping", e)
           /\ entry' = [entry EXCEPT ![e].lock = p, ![e].pool = @ \ {r.src}]
        \/ ~ok /\ Fail(p) /\ UNCHANGED entry
     /\ UNCHANGED <<process, boots, live, row, saved, obs>>

\* The source out of a list of handles: its first one.
Without(handles, s) ==
  LET i == CHOOSE k \in DOMAIN handles :
             handles[k].src = s /\ \A j \in 1..(k - 1) : handles[j].src # s
  IN SubSeq(handles, 1, i - 1) \o SubSeq(handles, i + 1, Len(handles))

\* Mutant: the regions that show a removed source keep it.
M_NotBlanked(slots, s) == slots

Blanked(slots, s) == [i \in DOMAIN slots |-> IF slots[i] = s THEN Blank ELSE slots[i]]

\* The regions, the handle (with its cancellation) and the unlock: whoever looks at the handles
\* has to have the lock.
RemoveSourceSlots(p) ==
  LET s == call[p].job.src IN
  /\ At(p, "dropping")
  /\ entry' = [entry EXCEPT ![call[p].my].slots = Blanked(@, s),
                            ![call[p].my].handles = Without(@, s),
                            ![call[p].my].lock = None]
  /\ torn' = IF Unread THEN torn ELSE torn \cup {Id(p)}
  /\ Goto(p, "regions")
  /\ UNCHANGED <<process, boots, live, row, saved, owed, raced>>

-----------------------------------------------------------------------------
(* persist_all: for every entry first the regions, then the sources; then the
   row. *)

ReadRegions(p) ==
  /\ At(p, "regions")
  /\ call' = [call EXCEPT ![p].pc = "sources", ![p].snap = [id \in Ids |->
       IF live[id] = 0 THEN None
       ELSE [sources |-> <<>>, regions |-> entry[live[id]].slots]]]
  /\ UNCHANGED <<process, boots, live, entry, row, saved, obs, clean>>

ReadSources(p) ==
  /\ At(p, "sources") /\ Unlocked
  /\ call' = [call EXCEPT ![p].pc = "save", ![p].snap = [id \in Ids |->
       IF live[id] = 0 THEN None ELSE [@[id] EXCEPT !.sources = SourceIds(live[id])]]]
  /\ UNCHANGED <<process, boots, live, entry, row, saved, obs, clean>>

\* set_json; a failure is only logged.  The call is answered.
Save(p, ok) ==
  /\ At(p, "save")
  /\ row' = IF ok THEN call[p].snap ELSE row
  /\ call' = [call EXCEPT ![p] = Idle(IF p = Boot THEN "next" ELSE "done")]
  /\ clean' = (clean /\ ok)
  /\ owed' = IF call[p].job.op = "create" THEN owed \cup {Id(p)} ELSE owed
  /\ UNCHANGED <<process, boots, live, entry, saved, raced, torn>>

-----------------------------------------------------------------------------
Progress(p) ==
  \/ Missing(p) \/ CreateCheck(p) \/ (\E on \in SUBSET Srcs : CreateOpen(p, on))
  \/ CreateInsert(p) \/ Remove(p) \/ Switch(p) \/ SwitchSlot(p)
  \/ Relayout(p) \/ RelayoutApply(p)
  \/ AddSource(p) \/ AddPool(p) \/ (\E k \in {"hot", "retry"} : AddPush(p, k))
  \/ RemoveSource(p) \/ RemoveSourceSlots(p)
  \/ ReadRegions(p) \/ ReadSources(p) \/ (\E ok \in BOOLEAN : Save(p, ok))

Next ==
  \/ \E p \in Procs : Progress(p)
  \/ \E c \in Calls : Abandon(c) \/ \E r \in Requests : Begin(c, r)
  \/ \E id \in Ids : RestoreNext(id)
  \/ Shutdown \/ Down \/ Up

Spec == Init /\ [][Next]_vars

-----------------------------------------------------------------------------
Live == {live[id] : id \in Ids} \ {0}
InHand(e) == \E p \in Procs : call[p].my = e

Pcs == {"idle", "next", "done", "create", "remove", "switch", "relayout", "add", "drop", "opening",
        "insert", "slot", "layout", "adding", "push", "dropping", "regions", "sources", "save"}
Call == [pc : Pcs, job : Request \cup {None}, my : Nat, gen : Nat, snap : [Ids -> Program \cup {None}]]

TypeOK ==
  /\ process \in {"up", "stopping", "down"} /\ boots \in 1..MaxBoots
  /\ live \in [Ids -> Nat] /\ entry \in Seq(Entry)
  /\ row \in [Ids -> Program \cup {None}] /\ saved \in [Ids -> Program \cup {None}]
  /\ call \in [Procs -> Call]
  /\ owed \subseteq Ids /\ raced \subseteq Ids /\ torn \subseteq Ids /\ clean \in BOOLEAN
  /\ \A id \in Ids : live[id] # 0 => live[id] \in DOMAIN entry /\ entry[live[id]].id = id

\* Nobody asks for program id with a source listed twice; create does not look.
ListedOnce(id) ==
  \A p \in {r.prog : r \in {q \in Requests : q.id = id}} \cup {s.row[id] : s \in Starts} :
    p # None => \A i, j \in DOMAIN p.sources : p.sources[i] = p.sources[j] => i = j

(***************************************************************************)
(* What is saved can be restored: as long as no two calls were busy with a *)
(* program at once, and it lost no source under another call's persist_all,*)
(* the row holds nothing that create's own validation would refuse for ever*)
(* (a region that shows a source the program no longer has, or no source at*)
(* all).  And what runs is whole: a region shows a listed source, and the  *)
(* pool has the listed sources, all of them if each was listed once.       *)
(***************************************************************************)
RowRestorable ==
  \A id \in Ids \ raced :
    /\ (row[id] # None /\ id \notin torn) => Restorable(row[id])
    /\ (live[id] # 0 /\ ~\E p \in Procs : Busy(p) /\ Id(p) = id)
       => LET e == entry[live[id]]
              listed == Elems(SourceIds(live[id]))
          IN /\ Valid(e.slots, listed) /\ e.pool \subseteq listed
             /\ ListedOnce(id) => e.pool = listed

(***************************************************************************)
(* Nothing is forgotten: a program whose creation was answered and that    *)
(* nobody asked to remove is in the row or about to be restored, through   *)
(* shutdowns, crashes and restarts, if calls did not overlap, none was     *)
(* dropped, every save worked and restore_all was not cut short.           *)
(***************************************************************************)
NothingForgotten ==
  clean => \A id \in owed :
    row[id] # None \/ saved[id] # None \/ (Busy(Boot) /\ Id(Boot) = id)

(***************************************************************************)
(* Nothing is orphaned: a compositing loop that publishes, and a source    *)
(* that decodes or reconnects, belong to an entry of the map or to a call  *)
(* in progress, however calls on different programs, restore_all and       *)
(* shutdown interleave, unless two calls on this program overlapped or one *)
(* was dropped.                                                            *)
(***************************************************************************)
NothingOrphaned ==
  \A e \in DOMAIN entry :
    (entry[e].id \notin raced /\ e \notin Live /\ ~InHand(e)) =>
      ~entry[e].running /\ \A i \in DOMAIN entry[e].handles : entry[e].handles[i].kind = "off"
=============================================================================
