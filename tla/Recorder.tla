------------------------------ MODULE Recorder ------------------------------
(* The segment recorder (crates/nvr-recorder): sessions that open the source, *)
(* start a file at a keyframe, rotate at one, announce every finished file on *)
(* a bounded channel, and are retried after a drop. The demuxer's broadcast   *)
(* channel, the disk and the consumer of the announcements are external.      *)
EXTENDS Integers, Sequences, SequencesExt

CONSTANTS
    Script,      \* the packets of one session, by kind: "key", "delta", "audio"
    SegTime,     \* segment_time, in packets
    InboxCap,    \* packets the demuxer's channel holds for a slow reader
    TxCap,       \* announcements the channel holds (16 in the code)
    MaxRetries,  \* the limit of the bounded policy
    MaxClock     \* bound on the wall clock

ASSUME RecorderAssumption ==
    /\ SegTime \in Nat \ {0} /\ InboxCap \in Nat \ {0} /\ TxCap \in Nat \ {0}
    /\ MaxRetries \in Nat /\ MaxClock \in Nat
    /\ Script \in Seq({"key", "delta", "audio"})

VARIABLES
    conf,       \* tracks, align_to_wall_clock and max_retries
    rpc,        \* where run and record_once are
    attempt,    \* retries used; never given back
    sess,       \* number of the session
    pos,        \* packets the demuxer has published in it
    inbox,      \* what the reader has not taken yet; "eof" ends it
    lagged,     \* the reader missed packets
    writer,     \* the open segment
    pend,       \* what follows a pending announcement
    files,      \* finished segments: what each held when it was finished
    names,      \* and the file of each, which is named for a second
    disk,       \* what the file of each second holds
    tx,         \* announcements in the channel
    heard,      \* announcements received
    kept,       \* packets written, in order (history)
    intact,     \* no disk error so far
    clock,      \* wall clock
    quit        \* the cancellation token

recvars == <<conf, rpc, attempt, sess, pos, inbox, lagged, writer, pend, files,
             names, disk, tx, heard, kept, intact, clock, quit>>

stored == <<files, names, disk>>

NoSegment == [open |-> FALSE, base |-> 0, start |-> 0, packets |-> <<>>]
NoPend    == [then |-> "none", packet |-> 0, now |-> 0]
Forever   == -1

RecInit(on) ==
    /\ conf \in [tracks : {"video", "both", "audio"}, align : BOOLEAN,
                 retries : {Forever, 0, MaxRetries}]
    /\ on \/ (conf.tracks = "both" /\ ~conf.align /\ conf.retries = Forever)
    /\ rpc = IF on THEN "check" ELSE "off"
    /\ attempt = 0 /\ sess = 0 /\ pos = 0 /\ inbox = <<>> /\ lagged = FALSE
    /\ writer = NoSegment /\ pend = NoPend /\ files = <<>> /\ tx = <<>>
    /\ names = <<>> /\ disk = [t \in 0..MaxClock |-> <<>>]
    /\ heard = 0 /\ kept = <<>> /\ intact = TRUE /\ clock = 0 /\ quit = FALSE

\* select_streams: video and audio are there in the script, or not.
HasVideo == conf.tracks # "audio"
Wanted(k) == CASE conf.tracks = "video" -> k # "audio"
               [] conf.tracks = "audio" -> k = "audio"
               [] OTHER -> TRUE

\* is_split_point: with video only a keyframe, without it any packet.
IsSplitPoint(k) == IF HasVideo THEN k = "key" ELSE TRUE

\* next_boundary: the next multiple of the period strictly after start.
NextBoundary(start) == (start \div SegTime + 1) * SegTime

\* should_rotate: by the wall clock, or by the media time since the base.
ShouldRotate(i) ==
    IF conf.align THEN clock >= NextBoundary(writer.start)
    ELSE i - writer.base >= SegTime

\* SegmentWriter::open with its origin and the time its first packet was taken,
\* of which the file has its name: one there already is truncated.
OpenSegment(i, now) == [open |-> TRUE, base |-> i, start |-> now, packets |-> <<>>]

Put(w, i) == [w EXCEPT !.packets = Append(@, [s |-> sess, i |-> i])]

\* A packet goes to the open segment's file.
Write(w, i) ==
    /\ writer' = Put(w, i) /\ kept' = Append(kept, [s |-> sess, i |-> i])
    /\ disk' = [disk EXCEPT ![w.start] = Put(w, i).packets]

\* finish: the trailer is written.
Finish ==
    /\ writer' = NoSegment
    /\ files' = Append(files, writer.packets) /\ names' = Append(names, writer.start)

RetriesLeft ==
    /\ conf.retries # 0
    /\ conf.retries = Forever \/ attempt < conf.retries

\* The head of run.
RunCheck ==
    /\ rpc = "check" /\ rpc' = IF quit THEN "done" ELSE "open"
    /\ UNCHANGED <<conf, attempt, sess, pos, inbox, lagged, writer, pend, stored, tx,
                   heard, kept, intact, clock, quit>>

\* record_once opens the source off the runtime and starts the reader; it may
\* fail, or find none of the wanted tracks.
OpenSource(MaxSessions) ==
    /\ rpc = "open"
    /\ \/ /\ sess < MaxSessions /\ rpc' = "loop" /\ sess' = sess + 1 /\ pos' = 0
          /\ inbox' = <<>> /\ lagged' = FALSE /\ writer' = NoSegment
       \/ rpc' = "failed" /\ UNCHANGED <<sess, pos, inbox, lagged, writer>>
    /\ UNCHANGED <<conf, attempt, pend, stored, tx, heard, kept, intact, clock, quit>>

\* The demuxer publishes the next packet, or the end of the stream; a reader
\* that is too far behind loses its oldest packet (external).
Publish ==
    /\ rpc \in {"loop", "send"} /\ pos <= Len(Script)
    /\ pos' = pos + 1
    /\ LET cmd == IF pos = Len(Script) THEN 0 ELSE pos + 1
           all == Append(inbox, cmd)
       IN /\ inbox' = IF Len(inbox) = InboxCap THEN Tail(all) ELSE all
          /\ lagged' = (lagged \/ Len(inbox) = InboxCap)
    /\ UNCHANGED <<conf, rpc, attempt, sess, writer, pend, stored, tx, heard, kept,
                   intact, clock, quit>>

\* close_writer: the trailer is written and the file announced, if there is one.
CloseWriter(next) ==
    /\ IF writer.open
       THEN Finish /\ pend' = [NoPend EXCEPT !.then = next] /\ rpc' = "send"
       ELSE rpc' = next /\ UNCHANGED <<writer, pend, files, names>>
    /\ UNCHANGED disk

\* Mutant: a reader that fell behind goes on with what is left.
M_SessionEnds == inbox # <<>> /\ Head(inbox) = 0

\* What ends a session: the reader fell behind (any receive error counts as a
\* closed channel), or the end of the stream.
SessionEnds == lagged \/ (inbox # <<>> /\ Head(inbox) = 0)

\* A stop, a lost packet or the end of the stream: close the segment. Only the
\* stop is a success.
LoopEnds ==
    /\ rpc = "loop"
    /\ \/ quit /\ CloseWriter("done")
       \/ SessionEnds /\ CloseWriter("failed")
    /\ UNCHANGED <<conf, attempt, sess, pos, inbox, lagged, tx, heard, kept, intact,
                   clock, quit>>

\* One packet: passed over if not wanted, or before the first split point;
\* written to the open segment; or, at a split point that is due, the segment
\* is finished and announced first and the packet begins the next one.
LoopPacket ==
    /\ rpc = "loop" /\ ~SessionEnds /\ inbox # <<>>
    /\ inbox' = Tail(inbox)
    /\ LET i == Head(inbox)
           k == Script[i]
       IN \/ /\ ~Wanted(k) \/ (~writer.open /\ ~IsSplitPoint(k))
             /\ UNCHANGED <<rpc, writer, pend, stored, kept>>
          \/ /\ Wanted(k) /\ ~writer.open /\ IsSplitPoint(k)
             /\ Write(OpenSegment(i, clock), i)
             /\ UNCHANGED <<rpc, pend, files, names>>
          \/ /\ Wanted(k) /\ writer.open /\ ~(IsSplitPoint(k) /\ ShouldRotate(i))
             /\ Write(writer, i)
             /\ UNCHANGED <<rpc, pend, files, names>>
          \/ /\ Wanted(k) /\ writer.open /\ IsSplitPoint(k) /\ ShouldRotate(i)
             /\ Finish
             /\ pend' = [then |-> "loop", packet |-> i, now |-> clock] /\ rpc' = "send"
             /\ UNCHANGED <<disk, kept>>
    /\ UNCHANGED <<conf, attempt, sess, pos, lagged, tx, heard, intact, clock, quit>>

\* The disk fails, on opening, writing or finishing a file: the error leaves
\* the session without a trailer for the open segment.
DiskError ==
    /\ rpc = "loop" /\ intact
    /\ intact' = FALSE /\ writer' = NoSegment /\ rpc' = "failed"
    /\ UNCHANGED <<conf, attempt, sess, pos, inbox, lagged, pend, stored, tx, heard,
                   kept, clock, quit>>

\* tx.send waits for room, whatever else happens; then the session goes on.
\* After a rotation the packet at hand begins the next file.
Announce ==
    /\ rpc = "send" /\ Len(tx) < TxCap
    /\ tx' = Append(tx, Len(files))
    /\ rpc' = pend.then /\ pend' = NoPend
    /\ IF pend.then = "loop"
       THEN Write(OpenSegment(pend.packet, pend.now), pend.packet)
       ELSE UNCHANGED <<writer, disk, kept>>
    /\ UNCHANGED <<conf, attempt, sess, pos, inbox, lagged, files, names, heard, intact,
                   clock, quit>>

\* A session failed: give up when the retries are used, else wait and go on.
Retry ==
    /\ rpc = "failed"
    /\ IF ~RetriesLeft THEN rpc' = "done" /\ UNCHANGED attempt
       ELSE /\ attempt' = IF attempt < MaxRetries THEN attempt + 1 ELSE attempt
            /\ rpc' = IF quit THEN "done" ELSE "check"
    /\ UNCHANGED <<conf, sess, pos, inbox, lagged, writer, pend, stored, tx, heard, kept,
                   intact, clock, quit>>

\* The consumer takes an announcement (external).
Hear ==
    /\ rpc # "off" /\ tx # <<>> /\ tx' = Tail(tx) /\ heard' = heard + 1
    /\ UNCHANGED <<conf, rpc, attempt, sess, pos, inbox, lagged, writer, pend, stored,
                   kept, intact, clock, quit>>

\* Time passes while a segment is open or announced (bound).
Tick ==
    /\ writer.open \/ rpc = "send"
    /\ clock < MaxClock /\ clock' = clock + 1
    /\ UNCHANGED <<conf, rpc, attempt, sess, pos, inbox, lagged, writer, pend, stored, tx,
                   heard, kept, intact, quit>>

Quit ==
    /\ rpc \notin {"off", "done"} /\ ~quit /\ quit' = TRUE
    /\ UNCHANGED <<conf, rpc, attempt, sess, pos, inbox, lagged, writer, pend, stored, tx,
                   heard, kept, intact, clock>>

RecorderStep(MaxSessions) ==
    \/ RunCheck \/ OpenSource(MaxSessions) \/ LoopEnds \/ LoopPacket \/ Announce \/ Retry

RecNext(MaxSessions) ==
    \/ RecorderStep(MaxSessions) \/ Publish \/ DiskError \/ Hear \/ Tick \/ Quit

(***************************************************************************)
(* Properties.                                                             *)
(***************************************************************************)

\* The wanted packet that follows packet i of a session.
Follows(p, q) ==
    /\ p.s = q.s /\ p.i < q.i
    /\ \A j \in (p.i + 1)..(q.i - 1) : ~Wanted(Script[j])

\* Every file begins where a player can begin and has no hole: its packets are
\* the wanted packets of one session, one after the other, from a split point
\* on; and the files of one session adjoin.
SegmentsSeamless ==
    \A n \in 1..Len(files) : LET f == files[n] IN
       /\ f # <<>>
       /\ HasVideo => Script[f[1].i] = "key"
       /\ \A m \in 1..(Len(f) - 1) : Follows(f[m], f[m + 1])
       /\ (n > 1 /\ intact /\ Last(files[n - 1]).s = f[1].s)
             => Follows(Last(files[n - 1]), f[1])

\* What was written is in a segment that was finished or in the open one,
\* however the session ended: a stop, a drop or a rotation leaves none behind.
\* Only a disk error does.
WrittenIsFinished ==
    intact => kept = FlattenSeq(files) \o writer.packets

\* One session rotates by the wall clock from f to g.
RotatedByClock(f, g) == conf.align /\ Last(f).s = g[1].s

\* A finished segment stays in its file, unless another was begun in the same
\* second and truncated it: by the media time, or after a drop, that may
\* happen; a rotation by the wall clock never does it.
FilesStand ==
    intact => \A n \in 1..Len(files) :
       \/ disk[names[n]] = files[n]
       \/ \E m \in (n + 1)..Len(files) :
             names[m] = names[n] /\ ~RotatedByClock(files[n], files[m])
       \/ /\ writer.open /\ writer.start = names[n]
          /\ ~RotatedByClock(files[n], writer.packets)

\* Nothing recorded is out of place or lost, but for files of one name.
RecordingWhole == SegmentsSeamless /\ WrittenIsFinished /\ FilesStand

\* A recorder that is told to stop returns, as long as somebody listens to its
\* announcements.
RecorderStops == quit ~> rpc = "done"

=============================================================================
