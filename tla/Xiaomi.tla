------------------------------- MODULE Xiaomi -------------------------------
(* A Xiaomi camera from the account login to the frames in ZLMediaKit         *)
(* (nvr/src/xiaomi.rs, crates/xiaomi): the validation tool obtains a token,   *)
(* the stream worker signs in with it, resolves the camera, dials it over     *)
(* CS2, authenticates, starts the media and forwards the H264 records until   *)
(* the device is cancelled. Composes Cloud and Cs2.                           *)
EXTENDS Cs2, Cloud

CONSTANT Video       \* the records whose codec is H264

ASSUME VideoAssumption == Video \subseteq Range(Records)

VARIABLES
    pc,         \* where the worker (or before it, the tool) is
    left,       \* sends a command has left
    sent,       \* commands reported as sent (history)
    stale,      \* an ack of an earlier command was about when one was written
    frames,     \* the frames given to ZLMediaKit
    track,      \* the video track is initialised
    cancelled

xiaomivars == <<cs2vars, cloudvars, pc, left, sent, stale, frames, track, cancelled>>

mine == <<pc, left, sent, stale, frames, track, cancelled>>

\* The client is dropped when the worker returns: its queues are closed.
Open == pc # "ended"

Connected == pc \in {"auth", "authwait", "reply", "start", "startwait", "loop",
                     "read", "stop", "stopwait"}

CommandOf == [auth |-> "auth", authwait |-> "auth", start |-> "start",
              startwait |-> "start", stop |-> "stop", stopwait |-> "stop"]

Waiting == [auth |-> "authwait", start |-> "startwait", stop |-> "stopwait"]

\* Where a command that was sent leads.
After == [auth |-> "reply", start |-> "loop", stop |-> "ended"]

\* The packet's header says H264 (miss::Client::read_packet decrypts the rest).
IsVideo(r) == r \in Video

(***************************************************************************)
(* The validation tool: log in, answering what it is asked, and print the   *)
(* token. An error ends it; it can be run again.                            *)
(***************************************************************************)
Tool ==
    /\ pc = "tool"
    /\ \/ (Login \/ LoginWithCaptcha \/ LoginWithVerify) /\ UNCHANGED mine
       \/ /\ at = "none" /\ step = "Err"
          /\ CloudNew
          /\ UNCHANGED mine
       \/ /\ at = "none" /\ step = "Done"
          /\ pc' = "token"
          /\ CloudNew
          /\ UNCHANGED <<left, sent, stale, frames, track, cancelled>>
    /\ UNCHANGED cs2vars

\* An exchange of either login with the account service.
Account ==
    /\ CloudStep
    /\ UNCHANGED <<cs2vars, mine>>

(***************************************************************************)
(* run: the worker.                                                        *)
(***************************************************************************)
TokenLogin ==
    /\ pc = "token" /\ LoginWithToken
    /\ UNCHANGED <<cs2vars, mine>>

TokenLoggedIn ==
    /\ pc = "token" /\ at = "none" /\ step \in {"Done", "Err"}
    /\ pc' = IF step = "Done" THEN "resolve" ELSE "ended"
    /\ UNCHANGED <<cs2vars, cloudvars, left, sent, stale, frames, track, cancelled>>

\* resolve_miss and the vendor test of connect: only cs2 is dialled. The account
\* client is not used again.
Resolve ==
    /\ pc = "resolve" /\ CloudNew
    /\ \/ RequestOk /\ pc' = "search"
       \/ pc' = "ended"
    /\ UNCHANGED <<cs2vars, left, sent, stale, frames, track, cancelled>>

\* handshake, first half: search until the punch packet is there. The socket
\* may fail.
Search ==
    /\ pc = "search"
    /\ \/ SendHello("search") /\ UNCHANGED <<cloudvars, mine>>
       \/ /\ Punched /\ pc' = "echo"
          /\ UNCHANGED <<cs2vars, cloudvars, left, sent, stale, frames, track, cancelled>>
       \/ /\ pc' = "ended"
          /\ UNCHANGED <<cs2vars, cloudvars, left, sent, stale, frames, track, cancelled>>

\* handshake, second half: echo it until a transport is offered; the socket or
\* the TCP connection may fail.
Echo ==
    /\ pc = "echo"
    /\ \/ SendHello("echo") /\ UNCHANGED <<cloudvars, mine>>
       \/ /\ Ready /\ pc' = "auth"
          /\ UNCHANGED <<cloudvars, left, sent, stale, frames, track, cancelled>>
       \/ /\ pc' = "ended"
          /\ UNCHANGED <<cs2vars, cloudvars, left, sent, stale, frames, track, cancelled>>

\* write_command begins. Over TCP the write is all there is to it. A write that
\* fails ends the worker, over UDP with the slot still armed.
WriteCommand ==
    /\ pc \in {"auth", "start", "stop"}
    /\ LET c == CommandOf[pc] IN
       \/ /\ mode = "udp" /\ SendCommand(c)
          /\ pc' = Waiting[pc] /\ left' = Repeats
          /\ stale' = (stale \/ \E d \in Commands :
                                   {CmdAck(d), Cmd(d)} \cap (toCli \cup toCam) # {})
          /\ UNCHANGED sent
       \/ /\ mode = "tcp" /\ SendOnce(c)
          /\ pc' = After[pc] /\ sent' = sent \cup {c}
          /\ UNCHANGED <<left, stale>>
       \/ /\ mode = "udp" /\ ArmSlot /\ pc' = "ended"
          /\ UNCHANGED <<left, sent, stale>>
       \/ /\ mode = "tcp" /\ pc' = "ended"
          /\ UNCHANGED <<cs2vars, left, sent, stale>>
    /\ UNCHANGED <<cloudvars, frames, track, cancelled>>

\* The slot fired: the command counts as sent.
CommandAcked ==
    /\ pc \in {"authwait", "startwait", "stopwait"} /\ slot = "fired"
    /\ ClearSlot
    /\ pc' = After[CommandOf[pc]] /\ sent' = sent \cup {CommandOf[pc]}
    /\ UNCHANGED <<cloudvars, left, stale, frames, track, cancelled>>

\* Mutant: a command that was never acknowledged is taken for sent.
M_CommandTimeout ==
    /\ pc \in {"authwait", "startwait", "stopwait"} /\ slot = "armed"
    /\ IF left > 1
       THEN /\ \/ Resend(CommandOf[pc]) /\ left' = left - 1 /\ UNCHANGED pc
               \/ pc' = "ended" /\ UNCHANGED <<cs2vars, left>>
            /\ UNCHANGED sent
       ELSE /\ ClearSlot /\ left' = 0
            /\ pc' = After[CommandOf[pc]] /\ sent' = sent \cup {CommandOf[pc]}
    /\ UNCHANGED <<cloudvars, stale, frames, track, cancelled>>

\* A second without an ack: send again, or give up after the last send. The
\* error, or that of a write, which leaves the slot armed, ends the worker; after
\* stop_media it is ignored, and ends it as well.
CommandTimeout ==
    /\ pc \in {"authwait", "startwait", "stopwait"} /\ slot = "armed"
    /\ IF left > 1
       THEN \/ Resend(CommandOf[pc]) /\ left' = left - 1 /\ UNCHANGED pc
            \/ pc' = "ended" /\ UNCHANGED <<cs2vars, left>>
       ELSE /\ ClearSlot /\ left' = 0 /\ pc' = "ended"
    /\ UNCHANGED <<cloudvars, sent, stale, frames, track, cancelled>>

\* login waits for the answer and insists on a success.
ReadReply ==
    /\ pc = "reply"
    /\ \/ TakeFrom(0) /\ pc' = IF Head(queue[0]) = Yes THEN "start" ELSE "ended"
       \/ Ended(0) /\ pc' = "ended" /\ UNCHANGED cs2vars
    /\ UNCHANGED <<cloudvars, left, sent, stale, frames, track, cancelled>>

\* Mutant: the loop looks at the cancellation only when the stream ends.
M_Loop ==
    /\ pc = "loop" /\ pc' = "read"
    /\ UNCHANGED <<cs2vars, cloudvars, left, sent, stale, frames, track, cancelled>>

\* The head of the streaming loop.
Loop ==
    /\ pc = "loop" /\ pc' = IF cancelled THEN "stop" ELSE "read"
    /\ UNCHANGED <<cs2vars, cloudvars, left, sent, stale, frames, track, cancelled>>

\* read_packet, with no time limit: a record that is not H264 is passed over,
\* the first that is initialises the track, an ended connection ends the worker.
ReadPacket ==
    /\ pc = "read"
    /\ \/ /\ TakeFrom(2) /\ pc' = "loop"
          /\ IF IsVideo(Head(queue[2]))
             THEN frames' = Append(frames, Head(queue[2])) /\ track' = TRUE
             ELSE UNCHANGED <<frames, track>>
       \/ Ended(2) /\ pc' = "ended" /\ UNCHANGED <<cs2vars, frames, track>>
    /\ UNCHANGED <<cloudvars, left, sent, stale, cancelled>>

\* The device is removed or the program stops.
Cancel ==
    /\ pc \notin {"tool", "ended"} /\ ~cancelled /\ cancelled' = TRUE
    /\ UNCHANGED <<cs2vars, cloudvars, pc, left, sent, stale, frames, track>>

Thread == (Connected \/ pc = "ended") /\ Worker(Open) /\ UNCHANGED <<cloudvars, mine>>

\* The camera and the network, as long as there is a socket that listens: once
\* the thread or the client is gone nothing they do is seen.
World ==
    /\ pc \in {"search", "echo"} \/ (Connected /\ up)
    /\ Network
    /\ UNCHANGED <<cloudvars, mine>>

Client ==
    \/ TokenLogin \/ TokenLoggedIn \/ Resolve \/ Search \/ Echo \/ WriteCommand
    \/ CommandAcked \/ CommandTimeout \/ ReadReply \/ Loop \/ ReadPacket

XiaomiInit ==
    /\ Cs2Init /\ CloudInit
    /\ pc = "tool" /\ left = 0 /\ sent = {} /\ stale = FALSE
    /\ frames = <<>> /\ track = FALSE /\ cancelled = FALSE

XiaomiNext == Tool \/ Account \/ Client \/ Cancel \/ Thread \/ World

\* The worker thread of the device runs; nothing is assumed of the camera, the
\* account service or the network.
XiaomiSpec == XiaomiInit /\ [][XiaomiNext]_xiaomivars /\ WF_xiaomivars(Client)

(***************************************************************************)
(* Properties.                                                             *)
(***************************************************************************)

\* The camera's H264 records, in order.
Videos == FlattenSeq([i \in DOMAIN Records |->
                         IF IsVideo(Records[i]) THEN <<Records[i]>> ELSE <<>>])

Reader == INSTANCE RecordStream
          WITH Sent <- Videos,
               out <- frames, over <- (pc = "ended")

\* The connection implements the abstract record stream: whatever the network
\* loses, repeats or reorders, and however the camera cuts its records, the
\* frames given to ZLMediaKit are the camera's H264 records, in order, whole
\* and once each.
FramesInOrder == Reader!Spec

\* What the worker thread acknowledges it keeps: a datagram of the camera that
\* was acknowledged (and so is not sent again) has been fed to its channel or
\* waits in the reorder buffer with the bytes that were sent.
AckedIsKept ==
    \A ch \in {0, 2}, k \in 1..Len(cam.frags) :
       (up /\ (Ack(ch, k) \in toCam \/ (ch = 2 /\ (k \in cam.acked \/ k < cam.low))))
          => mode = "tcp" \/ k <= fed[ch]
             \/ /\ SeqNo(k) \in DOMAIN chan[ch].push_buf
                /\ chan[ch].push_buf[SeqNo(k)] = Payload(ch, k)

\* A command that write_command reports as sent over UDP was received by the
\* camera, unless a copy or an ack of an earlier command was still about when
\* it was written: the worker fires the slot for any ack.
SentIsReceived == mode = "udp" /\ ~stale => sent \subseteq cam.got

\* A cancelled worker ends as soon as a record arrives or the connection
\* breaks: however the stop command fares, it gives up after its last send.
CancelNoticed ==
    (cancelled /\ pc \in {"loop", "read"} /\ (queue[2] # <<>> \/ ~up)) ~> pc = "ended"

=============================================================================
