------------------------------ MODULE Archive ------------------------------
(***************************************************************************)
(* The recordings: ZLM's record hook (nvr/src/zlm/server.rs) copies a      *)
(* finished .ts file into the archive and enters a row, the cleanup worker *)
(* (nvr/src/cleanup.rs) removes what is too old or too much, the transport *)
(* worker (nvr/src/transport) copies segments to remote targets, and the   *)
(* playback API (nvr/src/handler/playback.rs) plays and deletes them.  The *)
(* rows are nvr-db's; no two of its statements are in one transaction, so  *)
(* every statement and every file operation is a step of its own.          *)
(*                                                                         *)
(* A recording is a number, its start time: later ones are larger.  It is  *)
(* also the id of the row it inserts.  Time is counted in half days.       *)
(***************************************************************************)
EXTENDS Naturals, Sequences, FiniteSets, SequencesExt, FiniteSetsExt

CONSTANTS
  Recs, Paths, Targets, Dests,
  PathOf,       \* the archive path of a recording
  SizeOf,       \* bytes of a recording
  None,
  Requests,     \* API requests, each made at most once: [op, ids, target, to, policy]
  Ranges,       \* numbers a Range header may hold
  Scenarios,    \* where the model may begin: [recs, reqs, policy, target], and the bounds
                \* half days that pass, operations that fail and times the process ends:
                \* [time, faults, crashes]
  MaxAttempts, Batch

Policy == [on : BOOLEAN, age : Nat, cap : Nat]
Target == [on : BOOLEAN, dest : Dests \cup {None}]    \* dest None: a bad config

ASSUME ArchiveAssumption ==
  /\ Recs \subseteq Nat \ {0} /\ IsFiniteSet(Recs)
  /\ PathOf \in [Recs -> Paths] /\ SizeOf \in [Recs -> Nat]
  /\ Scenarios \subseteq [recs : SUBSET Recs, reqs : SUBSET Requests, policy : Policy,
                          target : [Targets -> Target \cup {None}],
                          time : Nat, faults : Nat, crashes : Nat]
  /\ Requests \subseteq [op : STRING, ids : Seq(Recs), target : Targets,
                         to : Target \cup {None}, policy : Policy]
  /\ \A q \in Requests : q.op = "play" => q.ids # <<>>
  /\ None \notin Nat /\ None \notin [rec : Recs, born : Nat]
  /\ MaxAttempts \in Nat /\ Batch \in Nat \ {0} /\ Ranges \subseteq Nat

VARIABLES
  file,     \* the archive: path -> recording whose bytes it holds, 0 without a file
  row,      \* record_segments: id -> [rec, born], None without a row
  job,      \* transport_jobs: id, target -> [st, attempts]
  target,   \* transport_targets
  stored,   \* the remote ends: destination, path -> recording, 0 without one
  policy,   \* the record_cleanup row
  hook,     \* recording -> [pc, now]
  cleaner,  \* [pc, cfg, todo, total]
  worker,   \* [pc, targets, segs, ok, attempts]
  call,     \* request -> [pc, todo, len, range]
  clock,
  time, faults, crashes,   \* what the bounds have left
  (* Observation only. *)
  left,     \* paths whose removal failed, or whose row a wipe took unseen
  others    \* bytes that others than the cleaner took off since it read the total

tables == <<file, row, job, target, stored, policy>>
bounds == <<clock, time, faults, crashes>>
seen   == <<left, others>>
vars   == <<tables, hook, cleaner, worker, call, bounds, seen>>

Fault(ok) == (ok \/ faults > 0) /\ faults' = IF ok THEN faults ELSE faults - 1

NoJob == [st |-> "none", attempts |-> 0]
Rows  == {id \in Recs : row[id] # None}
Bytes == FoldSet(LAMBDA id, n : n + SizeOf[row[id].rec], 0, Rows)
Seg(id) == [id |-> id, rec |-> row[id].rec]
Oldest(S) == CHOOSE s \in S : \A t \in S : s.rec <= t.rec

Sleeping == [pc |-> "sleep", cfg |-> None, todo |-> {}, total |-> 0]
Ticking  == [pc |-> "tick", targets |-> {}, segs |-> {}, ok |-> FALSE, attempts |-> 0]
Done     == [pc |-> "done", todo |-> <<>>, len |-> 0, range |-> <<None, None>>]
ToCome   == [Done EXCEPT !.pc = "due"]
Never    == [Done EXCEPT !.pc = "never"]

TypeOK ==
  /\ file \in [Paths -> Recs \cup {0}]
  /\ row \in [Recs -> [rec : Recs, born : Nat] \cup {None}]
  /\ job \in [Recs \X Targets -> [st : {"none", "done", "failed"}, attempts : 0..MaxAttempts]]
  /\ target \in [Targets -> Target \cup {None}]
  /\ stored \in [Dests -> [Paths -> Recs \cup {0}]]
  /\ policy \in Policy
  /\ hook \in [Recs -> [pc : {"never", "due", "copy", "probe", "upsert", "done", "failed"},
                        now : Nat]]
  /\ cleaner.pc \in {"sleep", "age", "agerow", "list", "prune", "prunerow"}
  /\ worker.pc \in {"tick", "target", "upload", "send", "record"}
  /\ clock \in Nat /\ time \in Nat /\ faults \in Nat /\ crashes \in Nat

Init ==
  \E s \in Scenarios :
    /\ file = [p \in Paths |-> 0] /\ row = [id \in Recs |-> None]
    /\ job = [x \in Recs \X Targets |-> NoJob]
    /\ target = s.target /\ policy = s.policy
    /\ stored = [d \in Dests |-> [p \in Paths |-> 0]]
    /\ hook = [r \in Recs |-> [pc |-> IF r \in s.recs THEN "due" ELSE "never", now |-> 0]]
    /\ cleaner = Sleeping /\ worker = Ticking
    /\ call = [q \in Requests |-> IF q \in s.reqs THEN ToCome ELSE Never]
    /\ clock = 0 /\ time = s.time /\ faults = s.faults /\ crashes = s.crashes
    /\ left = {} /\ others = 0

-----------------------------------------------------------------------------
(* The record hook: persist_record_ts, a task of its own for every file.   *)

HookTo(r, pc) == hook' = [hook EXCEPT ![r].pc = pc]

\* on_record_ts: the task is spawned; it takes the time first.
RecordTs(r) ==
  /\ hook[r].pc = "due"
  /\ hook' = [hook EXCEPT ![r] = [pc |-> "copy", now |-> clock]]
  /\ UNCHANGED <<tables, cleaner, worker, call, bounds, seen>>

\* archive_record_file: the copy replaces what the path holds.
ArchiveFile(r, ok) ==
  /\ hook[r].pc = "copy" /\ Fault(ok)
  /\ file' = IF ok THEN [file EXCEPT ![PathOf[r]] = r] ELSE file
  /\ HookTo(r, IF ok THEN "probe" ELSE "failed")
  /\ UNCHANGED <<row, job, target, stored, policy, cleaner, worker, call, clock, time, crashes, seen>>

\* metadata and probe: both need the file to be there still, and to be readable.
Probe(r, ok) ==
  /\ hook[r].pc = "probe" /\ Fault(ok)
  /\ HookTo(r, IF ok /\ file[PathOf[r]] # 0 THEN "upsert" ELSE "failed")
  /\ UNCHANGED <<tables, cleaner, worker, call, clock, time, crashes, seen>>

\* record_segment::upsert: a row of the same path keeps its id and its create_time.
RowFor(r) ==
  LET same == {id \in Rows : PathOf[id] = PathOf[r]} IN
  IF same = {} THEN [row EXCEPT ![r] = [rec |-> r, born |-> hook[r].now]]
  ELSE [id \in Recs |-> IF id \in same THEN [row[id] EXCEPT !.rec = r] ELSE row[id]]

\* Bytes that a step takes off the table.
Lost(old, new) ==
  LET Of(t) == FoldSet(LAMBDA id, n : n + SizeOf[t[id].rec], 0, {id \in Recs : t[id] # None})
  IN IF Of(new) < Of(old) THEN Of(old) - Of(new) ELSE 0

Upsert(r, ok) ==
  /\ hook[r].pc = "upsert" /\ Fault(ok)
  /\ row' = IF ok THEN RowFor(r) ELSE row
  /\ others' = others + Lost(row, row')
  /\ HookTo(r, IF ok THEN "done" ELSE "failed")
  /\ UNCHANGED <<file, job, target, stored, policy, cleaner, worker, call, clock, time, crashes, left>>

-----------------------------------------------------------------------------
(* Files and rows go one at a time.                                        *)

\* remove_file, remove_segment_file: what is not there is removed already.
RemoveFile(p, ok) ==
  /\ Fault(ok)
  /\ file' = IF ok THEN [file EXCEPT ![p] = 0] ELSE file
  /\ left' = IF ok \/ file[p] = 0 THEN left ELSE left \cup {p}

\* record_segment::delete
DeleteRow(id, ok) ==
  /\ Fault(ok)
  /\ row' = IF ok THEN [row EXCEPT ![id] = None] ELSE row

-----------------------------------------------------------------------------
(* The cleanup worker.                                                     *)

\* list_older_than_days compares text: "2026-07-05T..." with "2026-07-03 ...".  On the
\* cutoff's own day 'T' is above ' ', so only whole calendar days count.
Day(t) == t \div 2
\* Mutant: the age rule counts the cutoff's own day.
M_Expired(age) == {id \in Rows : Day(row[id].born) + age <= Day(clock)}

Expired(age) == {id \in Rows : Day(row[id].born) + age < Day(clock)}

\* run_once, up to the age rule.  Disabled: nothing.
CleanStart(ok) ==
  /\ cleaner.pc = "sleep" /\ policy.on /\ Fault(ok)
  /\ cleaner' = IF ~ok THEN Sleeping
                ELSE [Sleeping EXCEPT !.pc = "age", !.cfg = policy,
                        !.todo = IF policy.age = 0 THEN {}
                                 ELSE {Seg(id) : id \in Expired(policy.age)}]
  /\ UNCHANGED <<tables, hook, worker, call, clock, time, crashes, seen>>

\* Mutant: the size rule deletes the row and forgets the file.
M_CleanFile(ok) ==
  /\ \/ cleaner.pc = "age"
     \/ cleaner.pc = "prune" /\ cleaner.total > cleaner.cfg.cap
  /\ cleaner.todo # {} /\ ok
  /\ cleaner' = [cleaner EXCEPT !.pc = IF @ = "age" THEN "agerow" ELSE "prunerow"]
  /\ UNCHANGED <<file, row, job, target, stored, policy, hook, worker, call, bounds, seen>>

\* remove_segment, the file.
CleanFile(ok) ==
  /\ \/ cleaner.pc = "age"
     \/ cleaner.pc = "prune" /\ cleaner.total > cleaner.cfg.cap
  /\ cleaner.todo # {}
  /\ RemoveFile(PathOf[Oldest(cleaner.todo).id], ok)
  /\ cleaner' = [cleaner EXCEPT !.pc = IF @ = "age" THEN "agerow" ELSE "prunerow"]
  /\ UNCHANGED <<row, job, target, stored, policy, hook, worker, call, clock, time, crashes, others>>

\* total.saturating_sub(size)
Rest(s) == IF SizeOf[s.rec] > cleaner.total THEN 0 ELSE cleaner.total - SizeOf[s.rec]

\* remove_segment, the row; a failure is logged and the pass goes on.
CleanRow(ok) ==
  /\ cleaner.pc \in {"agerow", "prunerow"}
  /\ LET s == Oldest(cleaner.todo) IN
     /\ DeleteRow(s.id, ok)
     /\ cleaner' = IF cleaner.pc = "agerow"
                   THEN [cleaner EXCEPT !.pc = "age", !.todo = @ \ {s}]
                   ELSE [cleaner EXCEPT !.pc = "prune", !.todo = @ \ {s}, !.total = Rest(s)]
  /\ UNCHANGED <<file, job, target, stored, policy, hook, worker, call, clock, time, crashes, seen>>

\* total_size: is there too much?
CleanTotal(ok) ==
  /\ cleaner.pc = "age" /\ cleaner.todo = {} /\ Fault(ok)
  /\ cleaner' = IF ok /\ cleaner.cfg.cap > 0 /\ Bytes > cleaner.cfg.cap
                THEN [cleaner EXCEPT !.pc = "list", !.total = Bytes] ELSE Sleeping
  /\ others' = 0
  /\ UNCHANGED <<tables, hook, worker, call, clock, time, crashes, left>>

\* list, reversed: the oldest go first here, too.
CleanList(ok) ==
  /\ cleaner.pc = "list" /\ Fault(ok)
  /\ cleaner' = IF ok THEN [cleaner EXCEPT !.pc = "prune",
                              !.todo = {Seg(id) : id \in Rows}]
                ELSE Sleeping
  /\ UNCHANGED <<tables, hook, worker, call, clock, time, crashes, seen>>

CleanEnd ==
  /\ cleaner.pc = "prune" /\ (cleaner.todo = {} \/ cleaner.total <= cleaner.cfg.cap)
  /\ cleaner' = Sleeping
  /\ UNCHANGED <<tables, hook, worker, call, bounds, seen>>

Cleaner == \E ok \in BOOLEAN : CleanStart(ok) \/ CleanFile(ok) \/ CleanRow(ok)
                               \/ CleanTotal(ok) \/ CleanList(ok) \/ CleanEnd

-----------------------------------------------------------------------------
(* The transport worker.                                                   *)

\* sweep: the enabled targets are read once, with their configs, and served in some order.
First(S) == CHOOSE t \in S : TRUE

Sweep(ok) ==
  /\ worker.pc = "tick" /\ Fault(ok)
  /\ LET on == {t \in Targets : target[t] # None /\ target[t].on} IN
     worker' = IF ~ok \/ on = {} THEN Ticking
               ELSE [Ticking EXCEPT !.pc = "target",
                       !.targets = {[id |-> t, dest |-> target[t].dest] : t \in on}]
  /\ UNCHANGED <<tables, hook, cleaner, call, clock, time, crashes, seen>>

\* Mutant: a failed upload is not tried again.
M_Needing(t) == {id \in Rows : job[id, t].st = "none"}

\* list_needing_transport
Needing(t) == {id \in Rows : \/ job[id, t].st = "none"
                             \/ job[id, t].st = "failed" /\ job[id, t].attempts < MaxAttempts}

\* The oldest, a batch of them.
FirstOf(S) == {s \in S : Cardinality({t \in S : t.rec < s.rec}) < Batch}

\* build_backend: a config that does not parse skips the target.
SweepTarget(ok) ==
  /\ worker.pc = "target" /\ Fault(ok) /\ (ok \/ First(worker.targets).dest # None)
  /\ LET t == First(worker.targets)
         todo == IF t.dest = None THEN {} ELSE FirstOf({Seg(id) : id \in Needing(t.id)})
         next == worker.targets \ {t} IN
     worker' = IF ~ok THEN Ticking
               ELSE IF todo # {} THEN [worker EXCEPT !.pc = "upload", !.segs = todo]
               ELSE IF next # {} THEN [worker EXCEPT !.targets = next] ELSE Ticking
  /\ UNCHANGED <<tables, hook, cleaner, call, clock, time, crashes, seen>>

\* transport_job::get: the attempts so far.  If it fails the sweep ends, and no attempt is counted.
GetJob(ok) ==
  /\ worker.pc = "upload" /\ Fault(ok)
  /\ LET s == Oldest(worker.segs)  t == First(worker.targets) IN
     worker' = IF ok THEN [worker EXCEPT !.pc = "send", !.attempts = job[s.id, t.id].attempts + 1]
               ELSE Ticking
  /\ UNCHANGED <<tables, hook, cleaner, call, clock, time, crashes, seen>>

\* The backend's upload, which opens the local file.  The far end may refuse at any time, or
\* never answer: neither backend has a timeout and the worker waits.
Upload(ok) ==
  /\ worker.pc = "send"
  /\ LET s == Oldest(worker.segs)  t == First(worker.targets)  p == PathOf[s.id]
         sent == ok /\ file[p] # 0 IN
     /\ stored' = IF sent THEN [stored EXCEPT ![t.dest][p] = file[p]] ELSE stored
     /\ worker' = [worker EXCEPT !.pc = "record", !.ok = sent]
  /\ UNCHANGED <<file, row, job, target, policy, hook, cleaner, call, bounds, seen>>

\* Mutant: a failed upload counts as done.
M_Status(sent) == "done"

\* Status of the job by the outcome of the upload.
Status(sent) == IF sent THEN "done" ELSE "failed"

\* transport_job::upsert; its error ends the sweep.
RecordJob(ok) ==
  /\ worker.pc = "record" /\ Fault(ok)
  /\ LET s == Oldest(worker.segs)  t == First(worker.targets)
         segs == worker.segs \ {s}  next == worker.targets \ {t} IN
     /\ job' = IF ok THEN [job EXCEPT ![<<s.id, t.id>>] =
                             [st |-> Status(worker.ok), attempts |-> worker.attempts]]
               ELSE job
     /\ worker' = IF ~ok THEN Ticking
                  ELSE IF segs # {} THEN [worker EXCEPT !.pc = "upload", !.segs = segs]
                  ELSE IF next # {} THEN [Ticking EXCEPT !.pc = "target", !.targets = next]
                  ELSE Ticking
  /\ UNCHANGED <<file, row, target, stored, policy, hook, cleaner, call, clock, time, crashes, seen>>

WorkerAlone == \E ok \in BOOLEAN : Sweep(ok) \/ SweepTarget(ok) \/ GetJob(ok) \/ RecordJob(ok)
Worker == WorkerAlone \/ \E ok \in BOOLEAN : Upload(ok)

-----------------------------------------------------------------------------
(* The API.                                                                *)

At(q, pc)  == call[q].pc = pc
Go(q, pc, todo) == call' = [call EXCEPT ![q].pc = pc, ![q].todo = todo]
End(q)     == call' = [call EXCEPT ![q] = Done]

\* delete_segment and delete_segments: get, then the file; an id without a row is passed over.
DelFile(q, ok) ==
  /\ q.op = "delete" /\ (At(q, "due") \/ At(q, "del"))
  /\ LET todo == IF At(q, "due") THEN q.ids ELSE call[q].todo IN
     IF todo = <<>> \/ row[Head(todo)] = None
     THEN /\ IF todo = <<>> THEN End(q) ELSE Go(q, "del", Tail(todo))
          /\ ok /\ UNCHANGED <<file, left, faults>>
     ELSE Go(q, "delrow", todo) /\ RemoveFile(PathOf[Head(todo)], ok)
  /\ UNCHANGED <<row, job, target, stored, policy, hook, cleaner, worker, clock, time, crashes, others>>

\* ... and the row; an error answers at once and leaves the other ids alone.
DelRow(q, ok) ==
  /\ q.op = "delete" /\ At(q, "delrow")
  /\ DeleteRow(Head(call[q].todo), ok)
  /\ others' = others + Lost(row, row')
  /\ IF ok THEN Go(q, "del", Tail(call[q].todo)) ELSE End(q)
  /\ UNCHANGED <<file, job, target, stored, policy, hook, cleaner, worker, clock, time, crashes, left>>

\* delete_device_segments: the list, its files one by one, then every row of the stream.
WipeList(q) ==
  /\ q.op = "wipe" /\ At(q, "due")
  /\ Go(q, "wipe", SetToSeq(Rows))
  /\ UNCHANGED <<tables, hook, cleaner, worker, bounds, seen>>

WipeFile(q, ok) ==
  /\ q.op = "wipe" /\ At(q, "wipe") /\ call[q].todo # <<>>
  /\ RemoveFile(PathOf[Head(call[q].todo)], ok)
  /\ Go(q, "wipe", Tail(call[q].todo))
  /\ UNCHANGED <<row, job, target, stored, policy, hook, cleaner, worker, clock, time, crashes, others>>

WipeRows(q, ok) ==
  /\ q.op = "wipe" /\ At(q, "wipe") /\ call[q].todo = <<>> /\ Fault(ok)
  /\ row' = IF ok THEN [id \in Recs |-> None] ELSE row
  /\ left' = IF ok THEN left \cup {PathOf[id] : id \in {i \in Rows : file[PathOf[i]] # 0}}
             ELSE left
  /\ others' = others + Lost(row, row')
  /\ End(q)
  /\ UNCHANGED <<file, job, target, stored, policy, hook, cleaner, worker, clock, time, crashes>>

\* add_target, and the write of update_target.
PutTarget(q, ok) ==
  /\ At(q, IF q.op = "add" THEN "due" ELSE "put") /\ q.op \in {"add", "update"} /\ Fault(ok)
  /\ target' = IF ok THEN [target EXCEPT ![q.target] = q.to] ELSE target
  /\ End(q)
  /\ UNCHANGED <<file, row, job, stored, policy, hook, cleaner, worker, clock, time, crashes, seen>>

\* update_target: the target must exist; its password is taken over.
GetTarget(q) ==
  /\ q.op = "update" /\ At(q, "due")
  /\ IF target[q.target] = None THEN End(q) ELSE Go(q, "put", <<>>)
  /\ UNCHANGED <<tables, hook, cleaner, worker, bounds, seen>>

\* remove_target: the target's row, then its jobs.
DropTarget(q, ok) ==
  /\ q.op = "drop" /\ At(q, "due") /\ Fault(ok)
  /\ target' = IF ok THEN [target EXCEPT ![q.target] = None] ELSE target
  /\ IF ok THEN Go(q, "jobs", <<>>) ELSE End(q)
  /\ UNCHANGED <<file, row, job, stored, policy, hook, cleaner, worker, clock, time, crashes, seen>>

DropJobs(q, ok) ==
  /\ q.op = "drop" /\ At(q, "jobs") /\ Fault(ok)
  /\ job' = IF ok THEN [x \in Recs \X Targets |-> IF x[2] = q.target THEN NoJob ELSE job[x]]
            ELSE job
  /\ End(q)
  /\ UNCHANGED <<file, row, target, stored, policy, hook, cleaner, worker, clock, time, crashes, seen>>

\* save_cleanup
SaveCleanup(q, ok) ==
  /\ q.op = "policy" /\ At(q, "due") /\ Fault(ok)
  /\ policy' = IF ok THEN q.policy ELSE policy
  /\ End(q)
  /\ UNCHANGED <<file, row, job, target, stored, hook, cleaner, worker, clock, time, crashes, seen>>

-----------------------------------------------------------------------------
(* Playback.                                                               *)

\* Mutant: the last byte the client asks for is ignored.
M_ParseRange(from, till, len) ==
  IF len = 0 \/ (from = None /\ till = None) THEN <<>>
  ELSE IF from = None THEN IF till = 0 THEN <<>> ELSE <<0, len - 1>>
  ELSE IF from >= len THEN <<>> ELSE <<from, len - 1>>

\* parse_range_header of "bytes=from-till", None for a number that is missing: the first
\* and the last byte, <<>> for 416.
ParseRange(from, till, len) ==
  IF len = 0 \/ (from = None /\ till = None) THEN <<>>
  ELSE IF from = None
       THEN IF till = 0 THEN <<>>
            ELSE <<IF till > len THEN 0 ELSE len - till, len - 1>>
  ELSE IF till = None
       THEN IF from >= len THEN <<>> ELSE <<from, len - 1>>
  ELSE IF from > till \/ from >= len THEN <<>>
       ELSE <<from, IF till < len - 1 THEN till ELSE len - 1>>

\* play_segment: the row, the length of the file and the range.
PlayOpen(q, from, till) ==
  /\ q.op = "play" /\ At(q, "due")
  /\ LET id == q.ids[1]  p == PathOf[id] IN
     IF row[id] = None \/ file[p] = 0 THEN End(q)
     ELSE LET len == SizeOf[file[p]]  range == ParseRange(from, till, len) IN
          call' = [call EXCEPT ![q] = [pc |-> IF range = <<>> THEN "416" ELSE "read",
                                       todo |-> range, len |-> len, range |-> <<from, till>>]]
  /\ UNCHANGED <<tables, hook, cleaner, worker, bounds, seen>>

\* read_file_range: the file is opened again; read_exact fails at its end.
PlayRead(q) ==
  /\ q.op = "play" /\ At(q, "read")
  /\ LET r == file[PathOf[q.ids[1]]] IN
     IF r = 0 \/ call[q].todo[2] >= SizeOf[r] THEN End(q)
     ELSE call' = [call EXCEPT ![q].pc = "206"]
  /\ UNCHANGED <<tables, hook, cleaner, worker, bounds, seen>>

-----------------------------------------------------------------------------
Pass ==
  /\ time > 0 /\ time' = time - 1 /\ clock' = clock + 1
  /\ UNCHANGED <<tables, hook, cleaner, worker, call, faults, crashes, seen>>

\* The process ends and starts again: tasks are gone, files and rows are not.
Crash ==
  /\ crashes > 0 /\ crashes' = crashes - 1
  /\ cleaner' = Sleeping /\ worker' = Ticking
  /\ hook' = [r \in Recs |-> IF hook[r].pc \in {"copy", "probe", "upsert"}
                             THEN [hook[r] EXCEPT !.pc = "failed"] ELSE hook[r]]
  /\ call' = [q \in Requests |-> IF call[q].pc \in {"never", "due", "416", "206"}
                                 THEN call[q] ELSE Done]
  /\ UNCHANGED <<tables, clock, time, faults, seen>>

Hook(r) == RecordTs(r) \/ \E ok \in BOOLEAN : ArchiveFile(r, ok) \/ Probe(r, ok) \/ Upsert(r, ok)

Call(q) ==
  \/ \E ok \in BOOLEAN : DelFile(q, ok) \/ DelRow(q, ok) \/ WipeFile(q, ok) \/ WipeRows(q, ok)
                         \/ PutTarget(q, ok) \/ DropTarget(q, ok) \/ DropJobs(q, ok)
                         \/ SaveCleanup(q, ok)
  \/ WipeList(q) \/ GetTarget(q) \/ PlayRead(q)
  \/ \E from, till \in Ranges \cup {None} : PlayOpen(q, from, till)

Next == (\E r \in Recs : Hook(r)) \/ Cleaner \/ Worker \/ (\E q \in Requests : Call(q))
        \/ Pass \/ Crash

\* The worker's interval ticks again and again, and its statements return; nothing is assumed
\* of an upload.
Spec == Init /\ [][Next]_vars /\ WF_vars(WorkerAlone)

-----------------------------------------------------------------------------
(* Properties.                                                             *)

\* Two recordings went to one path.
Rerecorded(p) == \E r, s \in Recs : r # s /\ PathOf[r] = p /\ PathOf[s] = p
                                    /\ hook[r].pc \notin {"never", "due"}
                                    /\ hook[s].pc \notin {"never", "due"}

\* No recording is lost to sight: a file whose hook is through has a row, by which it is
\* listed, played and cleaned up, unless its removal failed, a wipe of the device took a row
\* it had not listed, or the path was recorded twice.  Cleanup and single deletes, in any
\* order with the hook, leave none behind (cleanup.rs remove_segment, playback.rs).
NothingStranded ==
  \A p \in Paths :
    file[p] # 0 /\ hook[file[p]].pc = "done" /\ ~Rerecorded(p) =>
      p \in left \/ \E id \in Rows : PathOf[id] = p

\* A job is marked done only when some destination holds the recording: not when the local
\* file was deleted under the worker, nor after a target's edit or removal in mid-sweep
\* (transport/worker.rs sweep).
DoneIsCopied ==
  \A id \in Rows, t \in Targets :
    job[id, t].st = "done" /\ ~Rerecorded(PathOf[id]) =>
      \E d \in Dests : stored[d][PathOf[id]] = row[id].rec

\* The cleanup worker takes a row only when its recording is older than the policy's days, or
\* when the rows, with what others deleted since it read the total, are above the cap
\* (cleanup.rs run_once): never too early, and never more than needed by its own doing.
RemovedWhenDue ==
  [][\A id \in Rows :
       row'[id] = None /\ cleaner' # cleaner /\ crashes' = crashes /\ ~Rerecorded(PathOf[id]) =>
         \/ cleaner.pc = "agerow" /\ hook[id].now + 2 * cleaner.cfg.age <= clock
         \/ cleaner.pc = "prunerow" /\ Bytes + others > cleaner.cfg.cap]_vars

\* The bytes a Range header asks of a file of len bytes.
AskedBytes(from, till, len) ==
  {i \in 0..(len - 1) : CASE from = None /\ till = None -> FALSE
                          [] from = None /\ till # None -> i + till >= len
                          [] from # None /\ till = None -> i >= from
                          [] OTHER                      -> from <= i /\ i <= till}

\* play_segment answers 206 with exactly the bytes asked for, at least one, and 416 only when
\* there are none (playback.rs parse_range_header).
RangeServed ==
  \A q \in Requests :
    LET wanted == AskedBytes(call[q].range[1], call[q].range[2], call[q].len) IN
    /\ At(q, "206") => wanted # {} /\ call[q].todo[1]..call[q].todo[2] = wanted
    /\ At(q, "416") => wanted = {}

\* Every segment that stays is sooner or later copied to every target that stays enabled with
\* a good config, or has been tried MaxAttempts times: segments that keep failing do not
\* hold up the batch (record_segment.rs list_needing_transport).  One upload that never
\* returns is all it takes to stop that, for every segment and target: ftp.rs and smb.rs set
\* no timeout and the one worker awaits them (worker.rs:79-81).
Transported ==
  \A id \in Recs, t \in Targets :
    <>[](row[id] # None /\ target[t] # None /\ target[t].on /\ target[t].dest # None) =>
      \/ <>(job[id, t].st = "done" \/ job[id, t].attempts = MaxAttempts)
      \/ <>[](worker.pc = "send")

=============================================================================
