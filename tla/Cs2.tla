-------------------------------- MODULE Cs2 --------------------------------
(* The CS2 transport to a Xiaomi camera (crates/xiaomi/src/cs2.rs): the       *)
(* LAN-search handshake, the worker thread that reorders, acknowledges and    *)
(* reassembles what the camera sends, and the acknowledged command writes.    *)
(* The camera and the network are external: the camera resends what was not   *)
(* acknowledged within its window, the network loses, repeats and reorders.   *)
EXTENDS Integers, Sequences, SequencesExt, FiniteSets

CONSTANTS
    Modulus,      \* 2^16 in the code: sequence numbers wrap here
    PushSize,     \* reorder window of a channel (10 and 250 in the code)
    QueueCap,     \* records a channel's queue holds (100 in the code)
    Repeats,      \* sends of a UDP command before it fails (5 in the code)
    Window,       \* the camera's send window (external)
    NetCap,       \* packets the network holds each way (bound)
    Records,      \* the media records, each a sequence of bytes
    Splits,       \* the ways the camera may cut them into datagrams
    Yes, No       \* the two answers to the authentication command

ASSUME Cs2Assumption ==
    /\ Modulus \in Nat \ {0} /\ Modulus % 2 = 0
    /\ Window \in Nat /\ Window <= Modulus \div 2 /\ PushSize \in Nat /\ QueueCap \in Nat \ {0}
    /\ Repeats \in Nat \ {0} /\ NetCap \in Nat \ {0}
    /\ Records \in Seq(Seq(Nat)) /\ Splits \subseteq Seq(Seq(Nat))
    /\ Yes \in Seq(Nat) /\ No \in Seq(Nat)

VARIABLES
    mode,     \* "none" until the handshake picks "udp" or "tcp"
    chan,     \* the DataChannel of channels 0 and 2
    queue,    \* the two bounded queues to the readers
    fed,      \* how many datagrams each channel took in order (history)
    up,       \* the worker thread runs (FALSE: err is set)
    slot,     \* cmd_ack: "none", "armed" or "fired"
    toCli,    \* packets on their way to the client
    toCam,    \* packets on their way to the camera
    cam       \* the camera

cs2vars == <<mode, chan, queue, fed, up, slot, toCli, toCam, cam>>

Commands == {"auth", "start", "stop"}

\* Bytes of a record's length prefix.
Hdr == 4

\* The length, in four bytes, and the body: how a record looks on the wire.
Framed(r) == <<0, 0, 0, Len(r)>> \o r

Wire == FlattenSeq([i \in 1..Len(Records) |-> Framed(Records[i])])

ASSUME SplitsCoverTheWire == \A s \in Splits : FlattenSeq(s) = Wire

\* DataChannel::new
NewChannel == [wait_seq |-> 0, push_buf |-> <<>>, data |-> <<>>, size |-> 0]

\* from_be_bytes of the length prefix.
PrefixOf(b) == ((b[1] * 256 + b[2]) * 256 + b[3]) * 256 + b[4]

Tail2(s, n) == SubSeq(s, n + 1, Len(s))

\* Mutant: the length is read afresh for the rest of a record that came in parts.
M_TakeRecord(st, open) ==
    IF st.full \/ Len(st.data) <= Hdr THEN st
    ELSE LET size == PrefixOf(st.data)
             data == Tail2(st.data, Hdr)
         IN IF size > Len(data) THEN [st EXCEPT !.data = data, !.size = size]
            ELSE IF ~open \/ Len(st.q) = QueueCap THEN [st EXCEPT !.full = TRUE]
            ELSE [st EXCEPT !.data = Tail2(data, size), !.size = 0,
                            !.q = Append(st.q, SubSeq(data, 1, size))]

\* One turn of the loop of DataChannel::push: read a length if none is
\* pending, hand the record to the queue once its bytes are there. A full or
\* closed queue is an error. Out of turns the state is left as it is.
TakeRecord(st, open) ==
    IF st.full \/ Len(st.data) <= Hdr THEN st
    ELSE LET size == IF st.size = 0 THEN PrefixOf(st.data) ELSE st.size
             data == IF st.size = 0 THEN Tail2(st.data, Hdr) ELSE st.data
         IN IF size > Len(data) THEN [st EXCEPT !.data = data, !.size = size]
            ELSE IF ~open \/ Len(st.q) = QueueCap THEN [st EXCEPT !.full = TRUE]
            ELSE [st EXCEPT !.data = Tail2(data, size), !.size = 0,
                            !.q = Append(st.q, SubSeq(data, 1, size))]

\* DataChannel::push: append the bytes and take every whole record.
Push(st, bytes, open) ==
    LET all == [st EXCEPT !.data = st.data \o bytes]
        turn[i \in 0..Len(all.data)] ==
            IF i = 0 THEN all ELSE TakeRecord(turn[i - 1], open)
    IN turn[Len(all.data)]

\* How far seq is ahead of the awaited one: the difference as a signed word.
Ahead(seq, wait) ==
    LET d == (seq - wait) % Modulus
    IN IF d >= Modulus \div 2 THEN d - Modulus ELSE d

Without(f, x) == [y \in DOMAIN f \ {x} |-> f[y]]
With(f, x, v) == [y \in DOMAIN f \cup {x} |-> IF y = x THEN v ELSE f[y]]

\* One turn of the loop of push_seq that follows an in-order datagram: advance
\* and go on with the buffered successor, if there is one.
Drain(st, open) ==
    IF st.full \/ ~st.more THEN st
    ELSE LET pushed == Push(st, st.cur, open)
             next   == (st.wait_seq + 1) % Modulus
             found  == next \in DOMAIN st.push_buf
         IN IF pushed.full THEN pushed
            ELSE [pushed EXCEPT
                    !.wait_seq = next, !.res = st.res + 1, !.more = found,
                    !.cur = IF found THEN st.push_buf[next] ELSE <<>>,
                    !.push_buf = IF found THEN Without(st.push_buf, next)
                                 ELSE st.push_buf]

\* The loop: one turn for the datagram and one for each that can be buffered.
Drained(st, open) ==
    LET turn[i \in 0..PushSize + 1] ==
            IF i = 0 THEN st ELSE Drain(turn[i - 1], open)
    IN turn[PushSize + 1]

\* Mutant: a datagram that finds the window full is acknowledged all the same.
M_PushSeq(c, q, seq, bytes, open) ==
    LET d  == Ahead(seq, c.wait_seq)
        st == [wait_seq |-> c.wait_seq, push_buf |-> c.push_buf, data |-> c.data,
               size |-> c.size, q |-> q, full |-> FALSE, res |-> 0,
               more |-> TRUE, cur |-> bytes]
    IN IF d > 0
       THEN IF seq \in DOMAIN c.push_buf
                 \/ Cardinality(DOMAIN c.push_buf) = PushSize THEN st
            ELSE [st EXCEPT !.push_buf = With(c.push_buf, seq, bytes)]
       ELSE IF d < 0 THEN st
       ELSE Drained(st, open)

\* DataChannel::push_seq: buffer what is ahead (res 0) unless the window is
\* full (res -1), drop what is behind (res 0), take what is next and all that
\* follows it in the buffer.
PushSeq(c, q, seq, bytes, open) ==
    LET d  == Ahead(seq, c.wait_seq)
        st == [wait_seq |-> c.wait_seq, push_buf |-> c.push_buf, data |-> c.data,
               size |-> c.size, q |-> q, full |-> FALSE, res |-> 0,
               more |-> TRUE, cur |-> bytes]
    IN IF d > 0
       THEN IF seq \in DOMAIN c.push_buf THEN st
            ELSE IF Cardinality(DOMAIN c.push_buf) = PushSize
                 THEN [st EXCEPT !.res = -1]
            ELSE [st EXCEPT !.push_buf = With(c.push_buf, seq, bytes)]
       ELSE IF d < 0 THEN st
       ELSE Drained(st, open)

Channel(st) == [wait_seq |-> st.wait_seq, push_buf |-> st.push_buf,
                data |-> st.data, size |-> st.size]

(***************************************************************************)
(* Packets.                                                                *)
(***************************************************************************)
Drw(ch, k)  == [t |-> "drw", ch |-> ch, k |-> k]
Ack(ch, k)  == [t |-> "drwack", ch |-> ch, k |-> k]
Cmd(c)      == [t |-> "cmd", c |-> c]
CmdAck(c)   == [t |-> "cmdack", c |-> c]
Hello(x)    == [t |-> "hello", x |-> x]

SeqNo(k) == (k - 1) % Modulus

\* What datagram k of a channel carries: the answer, or a piece of the media.
Payload(ch, k) ==
    IF ch = 2 THEN cam.frags[k] ELSE Framed(IF cam.accepts THEN Yes ELSE No)

\* A packet given to the network; over UDP one too many is lost at once.
Carried(net, p) ==
    IF mode = "udp" /\ Cardinality(net) >= NetCap THEN net ELSE net \cup {p}

\* A datagram that is received leaves the network, or a copy of it stays.
TakenFrom(net, p) == {net, net \ {p}}

(***************************************************************************)
(* The worker thread.                                                      *)
(***************************************************************************)

\* MSG_DRW over UDP: reorder, reassemble, acknowledge what was kept. An error
\* ends the thread.
RecvUdp(ch, k, open) ==
    /\ up /\ mode = "udp" /\ Drw(ch, k) \in toCli
    /\ LET r == PushSeq(chan[ch], queue[ch], SeqNo(k), Payload(ch, k), open)
       IN /\ chan' = [chan EXCEPT ![ch] = Channel(r)]
          /\ queue' = [queue EXCEPT ![ch] = r.q]
          /\ up' = ~r.full
          /\ fed' = [fed EXCEPT ![ch] = @ + (IF r.res > 0 THEN r.res ELSE 0)]
          /\ toCam' = IF ~r.full /\ r.res >= 0 THEN Carried(toCam, Ack(ch, k))
                      ELSE toCam
    /\ toCli' \in TakenFrom(toCli, Drw(ch, k))
    /\ UNCHANGED <<mode, slot, cam>>

\* MSG_DRW over TCP: the bytes go straight to the channel.
RecvTcp(ch, k, open) ==
    /\ up /\ mode = "tcp" /\ Drw(ch, k) \in toCli
    /\ LET st == [data |-> chan[ch].data, size |-> chan[ch].size,
                  q |-> queue[ch], full |-> FALSE]
           r  == Push(st, Payload(ch, k), open)
       IN /\ chan' = [chan EXCEPT ![ch].data = r.data, ![ch].size = r.size]
          /\ queue' = [queue EXCEPT ![ch] = r.q]
          /\ up' = ~r.full
    /\ fed' = [fed EXCEPT ![ch] = @ + 1]
    /\ toCli' = toCli \ {Drw(ch, k)}
    /\ UNCHANGED <<mode, slot, toCam, cam>>

\* MSG_DRW_ACK: fire the waiting writer, whichever command the ack is for.
RecvAck(c) ==
    /\ up /\ CmdAck(c) \in toCli
    /\ slot' = IF slot = "armed" THEN "fired" ELSE slot
    /\ toCli' = toCli \ {CmdAck(c)}
    /\ UNCHANGED <<mode, chan, queue, fed, up, toCam, cam>>

\* read_frame returns an error: err is set and the thread ends.
RecvError ==
    /\ up /\ up' = FALSE
    /\ UNCHANGED <<mode, chan, queue, fed, slot, toCli, toCam, cam>>

(***************************************************************************)
(* dial: the handshake.                                                    *)
(***************************************************************************)

\* write_until: send the request, again every second, until its answer is
\* there. There is no limit to the repetitions and no look at a cancellation.
SendHello(x) ==
    /\ mode = "none" /\ Hello(x) \notin toCam
    /\ toCam' = Carried(toCam, Hello(x))
    /\ UNCHANGED <<mode, chan, queue, fed, up, slot, toCli, cam>>

\* The answer to the search.
Punched == mode = "none" /\ Hello("punch") \in toCli

\* The answer to the echoed punch packet picks the transport; the worker
\* thread starts with fresh channels. Handshake packets still under way are
\* ignored from here on.
Ready ==
    /\ mode = "none" /\ Hello("ready") \in toCli
    /\ mode' = cam.mode /\ up' = TRUE
    /\ chan' = [ch \in {0, 2} |-> NewChannel]
    /\ queue' = [ch \in {0, 2} |-> <<>>]
    /\ fed' = [ch \in {0, 2} |-> 0]
    /\ toCli' = {} /\ toCam' = {}
    /\ UNCHANGED <<slot, cam>>

(***************************************************************************)
(* write_command.                                                          *)
(***************************************************************************)

\* The UDP path arms the slot; its write may fail.
ArmSlot ==
    /\ slot' = "armed"
    /\ UNCHANGED <<mode, chan, queue, fed, up, toCli, toCam, cam>>

\* It arms the slot and sends.
SendCommand(c) ==
    /\ slot' = "armed" /\ toCam' = Carried(toCam, Cmd(c))
    /\ UNCHANGED <<mode, chan, queue, fed, up, toCli, cam>>

\* The TCP path only sends.
SendOnce(c) ==
    /\ toCam' = Carried(toCam, Cmd(c))
    /\ UNCHANGED <<mode, chan, queue, fed, up, slot, toCli, cam>>

\* No ack for a second: send again with the same slot.
Resend(c) ==
    /\ slot = "armed" /\ toCam' = Carried(toCam, Cmd(c))
    /\ UNCHANGED <<mode, chan, queue, fed, up, slot, toCli, cam>>

\* The ack came, or the sends are used up: the slot is cleared.
ClearSlot ==
    /\ slot' = "none"
    /\ UNCHANGED <<mode, chan, queue, fed, up, toCli, toCam, cam>>

\* read_command and read_packet take the oldest record of their queue.
TakeFrom(ch) ==
    /\ queue[ch] # <<>>
    /\ queue' = [queue EXCEPT ![ch] = Tail(@)]
    /\ UNCHANGED <<mode, chan, fed, up, slot, toCli, toCam, cam>>

\* What is left in the queue is read first; then the reader meets err.
Ended(ch) == ~up /\ queue[ch] = <<>>

(***************************************************************************)
(* The camera and the network (external).                                  *)
(***************************************************************************)
NewCamera(m, yes, frags) ==
    [mode |-> m, accepts |-> yes, frags |-> frags, got |-> {}, low |-> 1,
     acked |-> {}, replied |-> FALSE]

CamHello ==
    /\ mode = "none"
    /\ \/ Hello("search") \in toCam /\ toCli' = Carried(toCli, Hello("punch"))
       \/ Hello("echo") \in toCam /\ toCli' = Carried(toCli, Hello("ready"))
    /\ UNCHANGED <<mode, chan, queue, fed, up, slot, toCam, cam>>

\* A command is acknowledged however often it comes: a late ack and one for a
\* copy come from the resends.
CamCommand(c) ==
    /\ mode # "none" /\ Cmd(c) \in toCam
    /\ cam' = [cam EXCEPT !.got = @ \cup {c}]
    /\ toCli' = IF mode = "udp" THEN Carried(toCli, CmdAck(c)) ELSE toCli
    /\ toCam' = toCam \ {Cmd(c)}
    /\ UNCHANGED <<mode, chan, queue, fed, up, slot>>

CamReply ==
    /\ "auth" \in cam.got /\ ~cam.replied /\ Drw(0, 1) \notin toCli
    /\ mode = "tcp" => fed[0] = 0
    /\ toCli' = Carried(toCli, Drw(0, 1))
    /\ UNCHANGED <<mode, chan, queue, fed, up, slot, toCam, cam>>

Streaming == cam.accepts /\ "start" \in cam.got /\ "stop" \notin cam.got

CamSend(k) ==
    /\ Streaming /\ Drw(2, k) \notin toCli
    /\ IF mode = "tcp" THEN k = fed[2] + 1
       ELSE k \in cam.low..(cam.low + Window - 1) \ cam.acked
    /\ toCli' = Carried(toCli, Drw(2, k))
    /\ UNCHANGED <<mode, chan, queue, fed, up, slot, toCam, cam>>

\* The window moves past what is acknowledged; copies of what is behind it do
\* not outlive it (a copy is never half a number space old).
CamAck(ch, k) ==
    /\ Ack(ch, k) \in toCam
    /\ toCam' = toCam \ {Ack(ch, k)}
    /\ IF ch = 0
       THEN cam' = [cam EXCEPT !.replied = TRUE] /\ UNCHANGED toCli
       ELSE LET acked == cam.acked \cup {k}
                low   == CHOOSE l \in cam.low..(cam.low + Window) :
                            l \notin acked /\ \A j \in cam.low..(l - 1) : j \in acked
            IN /\ cam' = [cam EXCEPT !.low = low,
                            !.acked = {j \in acked : j > low}]
               /\ toCli' = {p \in toCli : p.t = "drw" /\ p.ch = 2 => p.k >= low}
    /\ UNCHANGED <<mode, chan, queue, fed, up, slot>>

Lose ==
    /\ mode # "tcp"
    /\ \/ \E p \in toCli : toCli' = toCli \ {p} /\ UNCHANGED toCam
       \/ \E p \in toCam : toCam' = toCam \ {p} /\ UNCHANGED toCli
    /\ UNCHANGED <<mode, chan, queue, fed, up, slot, cam>>

Network ==
    \/ CamHello \/ CamReply \/ Lose
    \/ \E c \in Commands : CamCommand(c)
    \/ \E k \in 1..Len(cam.frags) : CamSend(k)
    \/ \E ch \in {0, 2}, k \in 1..Len(cam.frags) : CamAck(ch, k)

Worker(open) ==
    \/ \E ch \in {0, 2}, k \in 1..Len(cam.frags) :
          RecvUdp(ch, k, open) \/ RecvTcp(ch, k, open)
    \/ \E c \in Commands : RecvAck(c)
    \/ RecvError

Cs2Init ==
    /\ mode = "none" /\ up = FALSE /\ slot = "none"
    /\ chan = [ch \in {0, 2} |-> NewChannel]
    /\ queue = [ch \in {0, 2} |-> <<>>]
    /\ fed = [ch \in {0, 2} |-> 0]
    /\ toCli = {} /\ toCam = {}
    /\ \E m \in {"udp", "tcp"}, yes \in BOOLEAN, s \in Splits :
          cam = NewCamera(m, yes, s)

=============================================================================
