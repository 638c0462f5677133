------------------------------ MODULE Devices ------------------------------
(***************************************************************************)
(* The devices: the handlers of nvr/src/handler/device.rs, the start-up in *)
(* nvr/src/init/device.rs, and the pipe API of nvr/src/handler/media_pipe.rs *)
(* beside them.  A device is a row of nvr-db, and what runs for it: a      *)
(* source in the manager's registry (Manager models how one replaces       *)
(* another), a mapping of the GB28181 bridge, an entry of the ONVIF        *)
(* registry.  The handlers change these one after the other and nothing    *)
(* holds them together: a call is a list of steps, and every await lies    *)
(* between two of them.                                                    *)
(***************************************************************************)
EXTENDS Naturals, Sequences, FiniteSets

CONSTANTS
  Ids, Cfgs,     \* Cfgs: [type, val, ok]; ok: the value parses and the type is known
  DevReqs,       \* requests, each made at most once: [op, id, cfg, ...]
  GbOn,          \* the GB28181 platform is up
  NoCfg

DevOps == {"add", "update", "remove", "pipe", "unpipe"}

ASSUME DevicesAssumption ==
  /\ Cfgs \subseteq [type : {"net", "gb28181", "onvif", "other"}, val : Nat, ok : BOOLEAN]
  /\ \A r \in DevReqs : r.op \in DevOps /\ r.id \in Ids /\ r.cfg \in Cfgs
  /\ GbOn \in BOOLEAN /\ NoCfg \notin Cfgs \cup [id : Ids, cfg : Cfgs]
  /\ IsFiniteSet(Ids)

VARIABLES
  rows,      \* the kvs table: it has no unique key, so an id may have several rows
  source,    \* the manager's registry
  mapping,   \* the bridge's mappings
  registry,  \* the ONVIF registry
  dcall,     \* request -> [st, todo, old, found]
  boot,      \* rows the start-up has yet to bring up; <<NoCfg>> before it has listed them
  mixed,     \* observation: ids whose calls overlapped or were dropped half-way, or that were
             \* not left to the device API
  down       \* observation: ids whose rows the start-up could not list

dvars == <<rows, source, mapping, registry, dcall, boot, mixed, down>>

DevTypeOK ==
  /\ rows \in [Ids -> Seq(Cfgs)]
  /\ source \in [Ids -> Cfgs \cup {NoCfg}]
  /\ mapping \in [Ids -> Cfgs \cup {NoCfg}] /\ registry \in [Ids -> Cfgs \cup {NoCfg}]
  /\ \A r \in DevReqs : dcall[r].st \in {"never", "due", "run", "done", "error"}
  /\ mixed \in SUBSET Ids /\ down \in SUBSET Ids

Nothing == [i \in Ids |-> NoCfg]
NotListed == <<NoCfg>>

\* What a call is made of.  ensure_device_pipe by the type of the device:
Ensure(c) ==
  IF ~c.ok THEN <<"fail">>
  ELSE CASE c.type = "gb28181" -> <<"map">>
         [] c.type = "onvif"   -> <<"reg", "upsert">>
         [] OTHER              -> <<"upsert">>

\* Mutant: an edit leaves the old type's entries alone.
M_Cleanup(old, new) == IF old.type # new.type /\ new.type = "gb28181" THEN <<"unpipe">> ELSE <<>>

\* update_device: what an edit of the type takes down first.
Cleanup(old, new) ==
  IF old.type = new.type THEN <<>>
  ELSE (IF old.type = "gb28181" THEN <<"unmap">> ELSE <<>>)
       \o (IF old.type = "onvif" THEN <<"unreg">> ELSE <<>>)
       \o (IF new.type = "gb28181" THEN <<"unpipe">> ELSE <<>>)

\* The steps of a call, up to where they depend on what it reads.
Program(r) ==
  CASE r.op = "add"    -> <<"look", "put">> \o Ensure(r.cfg)
    [] r.op = "update" -> <<"read", "look", "put">>
    [] r.op = "remove" -> <<"delete", "unpipe", "unmap", "unreg">>
    [] r.op = "pipe"   -> <<"add">>
    [] r.op = "unpipe" -> <<"unpipe">>

NotMade == [st |-> "never", todo |-> <<>>, old |-> NoCfg, found |-> FALSE]

DevInit(reqs, table) ==
  /\ rows = table
  /\ source = Nothing /\ mapping = Nothing /\ registry = Nothing
  /\ dcall = [r \in DevReqs |-> IF r \in reqs THEN [NotMade EXCEPT !.st = "due"] ELSE NotMade]
  /\ boot = NotListed /\ mixed = {i \in Ids : Len(rows[i]) > 1} /\ down = {}

Running(i) == \E r \in DevReqs : r.id = i /\ dcall[r].st = "run"

\* A request comes in.
DevBegin(r) ==
  /\ dcall[r].st = "due"
  /\ dcall' = [dcall EXCEPT ![r].st = "run", ![r].todo = Program(r)]
  /\ mixed' = IF \/ Running(r.id) \/ boot # <<>> \/ r.op \in {"pipe", "unpipe"}
                 \/ r.op = "add" /\ rows[r.id] # <<>> /\ Head(rows[r.id]).type # r.cfg.type
              THEN mixed \cup {r.id} ELSE mixed
  /\ UNCHANGED <<rows, source, mapping, registry, boot, down>>

DevAt(r, step) == dcall[r].st = "run" /\ Head(dcall[r].todo) = step

\* On to the next step; the answer is sent after the last.
Goto(r, todo) == [dcall EXCEPT ![r].todo = todo, ![r].st = IF todo = <<>> THEN "done" ELSE "run"]
NextStep(r)   == dcall' = Goto(r, Tail(dcall[r].todo))
Error(r)      == dcall' = [dcall EXCEPT ![r].st = "error", ![r].todo = <<>>]

-----------------------------------------------------------------------------
(* Steps on the table: device::get, upsert (a look, then UPDATE or INSERT) *)
(* and delete.  The database may refuse any of them.                       *)

ReadRow(r) ==
  /\ DevAt(r, "read")
  /\ IF rows[r.id] = <<>> THEN Error(r)
     ELSE dcall' = [Goto(r, Tail(dcall[r].todo)) EXCEPT ![r].old = Head(rows[r.id])]
  /\ UNCHANGED <<rows, source, mapping, registry, boot, mixed, down>>

LookRow(r) ==
  /\ DevAt(r, "look")
  /\ dcall' = [Goto(r, Tail(dcall[r].todo)) EXCEPT ![r].found = rows[r.id] # <<>>]
  /\ UNCHANGED <<rows, source, mapping, registry, boot, mixed, down>>

\* Mutant: the row is inserted, whether there is one or not.
M_Put(r) == Append(rows[r.id], r.cfg)

Put(r) == IF dcall[r].found THEN [n \in DOMAIN rows[r.id] |-> r.cfg]
          ELSE Append(rows[r.id], r.cfg)

PutRow(r) ==
  /\ DevAt(r, "put")
  /\ rows' = [rows EXCEPT ![r.id] = Put(r)]
  /\ dcall' = Goto(r, IF r.op = "update" THEN Cleanup(dcall[r].old, r.cfg) \o Ensure(r.cfg)
                      ELSE Tail(dcall[r].todo))
  /\ down' = down \ {r.id}
  /\ UNCHANGED <<source, mapping, registry, boot, mixed>>

\* All the rows of the id; a removal that runs alone then clears up after whatever was mixed.
OnlyCall(r) == boot = <<>> /\ \A q \in DevReqs : q.id = r.id /\ dcall[q].st = "run" => q = r

DeleteDevice(r) ==
  /\ DevAt(r, "delete")
  /\ rows' = [rows EXCEPT ![r.id] = <<>>]
  /\ NextStep(r)
  /\ mixed' = IF OnlyCall(r) THEN mixed \ {r.id} ELSE mixed
  /\ down' = down \ {r.id}
  /\ UNCHANGED <<source, mapping, registry, boot>>

\* The statement fails; or the client has left and the handler's future is dropped there, with
\* nothing written.
DbError(r) ==
  /\ dcall[r].st = "run" /\ Head(dcall[r].todo) \in {"read", "look", "put", "delete"}
  /\ Error(r)
  /\ UNCHANGED <<rows, source, mapping, registry, boot, mixed, down>>

-----------------------------------------------------------------------------
(* Steps on what runs.                                                     *)

\* manager::update_pipe, upsert_xiaomi, upsert_stream, upsert_onvif: one source replaces
\* another; add_pipe keeps the one there is.
Source(r) ==
  /\ DevAt(r, "upsert") \/ DevAt(r, "add")
  /\ source' = IF DevAt(r, "add") /\ source[r.id] # NoCfg THEN source
               ELSE [source EXCEPT ![r.id] = r.cfg]
  /\ NextStep(r)
  /\ UNCHANGED <<rows, mapping, registry, boot, mixed, down>>

Map(r) ==
  /\ DevAt(r, "map")
  /\ mapping' = IF GbOn THEN [mapping EXCEPT ![r.id] = r.cfg] ELSE mapping
  /\ NextStep(r)
  /\ UNCHANGED <<rows, source, registry, boot, mixed, down>>

Register(r) ==
  /\ DevAt(r, "reg")
  /\ registry' = [registry EXCEPT ![r.id] = r.cfg]
  /\ NextStep(r)
  /\ UNCHANGED <<rows, source, mapping, boot, mixed, down>>

\* remove_pipe, unregister_mapping, onvif::remove: nothing to remove is no error.
TakeDown(r) ==
  /\ DevAt(r, "unpipe") \/ DevAt(r, "unmap") \/ DevAt(r, "unreg")
  /\ source'   = IF DevAt(r, "unpipe") THEN [source EXCEPT ![r.id] = NoCfg] ELSE source
  /\ mapping'  = IF DevAt(r, "unmap") THEN [mapping EXCEPT ![r.id] = NoCfg] ELSE mapping
  /\ registry' = IF DevAt(r, "unreg") THEN [registry EXCEPT ![r.id] = NoCfg] ELSE registry
  /\ NextStep(r)
  /\ UNCHANGED <<rows, boot, mixed, down>>

\* A config that does not parse, an unknown type: the row is written by then.
EnsureFails(r) ==
  /\ DevAt(r, "fail") /\ Error(r)
  /\ UNCHANGED <<rows, source, mapping, registry, boot, mixed, down>>

\* The client leaves: the handler's future is dropped at an await after the row was written,
\* and nobody does the rest (update_device and remove_device are not spawned).  What was being
\* taken down may be gone already.
DropCall(r) ==
  /\ dcall[r].st = "run" /\ Head(dcall[r].todo) \in {"unpipe", "unmap", "map", "upsert", "add"}
  /\ Error(r)
  /\ mixed' = mixed \cup {r.id}
  /\ source' = source \/ ((DevAt(r, "unpipe") \/ DevAt(r, "upsert")) /\ source' = [source EXCEPT ![r.id] = NoCfg])
  /\ mapping' = mapping \/ (DevAt(r, "unmap") /\ mapping' = [mapping EXCEPT ![r.id] = NoCfg])
  /\ UNCHANGED <<rows, registry, boot, down>>

-----------------------------------------------------------------------------
(* init_device_pipes: the rows are listed once and brought up in turn.     *)

Listed == UNION {{[id |-> i, cfg |-> rows[i][n]] : n \in DOMAIN rows[i]} : i \in Ids}

\* updated_at orders the list; any order may come.
BootList ==
  /\ boot = NotListed
  /\ \E s \in [1..Cardinality(Listed) -> Listed] :
       {s[n] : n \in DOMAIN s} = Listed /\ boot' = s
  /\ mixed' = mixed \cup {r.id : r \in {q \in DevReqs : dcall[q].st = "run"}}
  /\ UNCHANGED <<rows, source, mapping, registry, dcall, down>>

\* No connection, or the query fails: it is logged, no device is started, nothing tries again.
BootListFails ==
  /\ boot = NotListed /\ boot' = <<>>
  /\ mixed' = mixed \cup {r.id : r \in {q \in DevReqs : dcall[q].st = "run"}}
  /\ down' = {i \in Ids : rows[i] # <<>>}
  /\ UNCHANGED <<rows, source, mapping, registry, dcall>>

\* One device; its error is logged.  ONVIF's two steps have no await between them but the
\* manager's lock; PTZ may come first.
BootDevice ==
  /\ boot # NotListed /\ boot # <<>>
  /\ LET i == Head(boot).id  c == Head(boot).cfg  Has(s) == s \in {Ensure(c)[n] : n \in DOMAIN Ensure(c)} IN
     /\ source'   = IF Has("upsert") THEN [source EXCEPT ![i] = c] ELSE source
     /\ mapping'  = IF Has("map") /\ GbOn THEN [mapping EXCEPT ![i] = c] ELSE mapping
     /\ registry' = IF Has("reg") THEN [registry EXCEPT ![i] = c] ELSE registry
  /\ boot' = Tail(boot)
  /\ UNCHANGED <<rows, dcall, mixed, down>>

\* The process ends and starts again: only the rows stay.
DevRestart ==
  /\ source' = Nothing /\ mapping' = Nothing /\ registry' = Nothing
  /\ dcall' = [r \in DevReqs |-> IF dcall[r].st = "run"
                                 THEN [dcall[r] EXCEPT !.st = "error", !.todo = <<>>] ELSE dcall[r]]
  /\ boot' = NotListed /\ mixed' = {i \in Ids : Len(rows[i]) > 1} /\ down' = {}
  /\ UNCHANGED rows

DevStep(r) == ReadRow(r) \/ LookRow(r) \/ PutRow(r) \/ DeleteDevice(r) \/ DbError(r)
              \/ Source(r) \/ Map(r) \/ Register(r) \/ TakeDown(r) \/ EnsureFails(r) \/ DropCall(r)
Boot == BootList \/ BootListFails \/ BootDevice

-----------------------------------------------------------------------------
(* Properties.                                                             *)

\* What should run for a device of this config.
Wanted(c) == [source   |-> IF c.type = "gb28181" THEN NoCfg ELSE c,
              mapping  |-> IF c.type = "gb28181" /\ GbOn THEN c ELSE NoCfg,
              registry |-> IF c.type = "onvif" THEN c ELSE NoCfg]

\* When no call on a device is under way, exactly what its row says runs, and nothing runs
\* without a row: after any sequence of adds, edits of type and value, removals, failed writes
\* and restarts, an edit also clearing up what an earlier one that failed half-way has left
\* (handler/device.rs:129-151).  It is not kept, and the exceptions are the observations: by
\* calls on one device that overlap one another or the start-up, by a call dropped after its
\* row was written, by an add over a device of another type and by the bare pipe API, until
\* the process starts again or a removal runs alone; and by a start-up that could not list the
\* rows (init/device.rs:32-33), for the device that nobody has edited since.  upsert looks and
\* then inserts, without a unique key: only calls that overlapped leave an id with two rows.
DevicesAgree ==
  \A i \in Ids :
    ~Running(i) /\ boot = <<>> /\ i \notin mixed =>
      /\ Len(rows[i]) <= 1
      /\ rows[i] = <<>> => source[i] = NoCfg /\ mapping[i] = NoCfg /\ registry[i] = NoCfg
      /\ Len(rows[i]) = 1 /\ rows[i][1].ok /\ i \notin down =>
           Wanted(rows[i][1]) = [source |-> source[i], mapping |-> mapping[i],
                                 registry |-> registry[i]]

=============================================================================
