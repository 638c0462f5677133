# lite-nvr: TLA+ models, checks and proofs

lite-nvr is a network video recorder in Rust. It pulls cameras in (RTSP, GB28181, ONVIF,
Xiaomi, live sites), runs them through an FFmpeg pipeline, and republishes them through
ZLMediaKit (ZLM). This directory models the part of it that is concurrent and
stateful: who owns a running source, what happens on the way from a reader to a sink when
queues fill or things end, what the GB28181 platform remembers of its devices, what the
database remembers of devices, programs, mixes, recordings and sessions, and how cameras are
pulled, recorded and switched.

Paths below are relative to `src/`.

## 1. Inventory

### Modelled in this directory

| component | state it keeps | operations | talks to |
|---|---|---|---|
| Source registry `nvr/src/manager.rs` | `PIPE_MANAGER`: id to `Entry` (pipe, worker thread, supervisor task) | `add_*`, `update_*`, `remove_pipe`, `shutdown` | called by API handlers and start-up; owns pipes, workers, supervisors |
| Pipe driver `crates/media-pipe-core/src/pipe.rs` | join set of forwarders, token, input config | `start`, `cancel` | a `Bus` by commands, sinks by `mpsc` |
| ZLM sink, track coordinator `crates/media-pipe-zlm/src/lib.rs` | expected and registered tracks, rejected tracks, `init_complete` flag | `register_track`, `reject`, `wait`, per-frame forward | ZLM `Media` (C library) |
| Input reader `crates/ffmpeg-bus/src/input.rs` | token, `broadcast` sender | `read_loop` | broadcast to every relay |
| Bus actor `crates/ffmpeg-bus/src/bus.rs` | input task, pending input, streams, decoder, encoder and output tables | `AddInput`, `RemoveInput`, `AddOutput`, `Subscribe*` | starts reader, relays, codecs, muxers |
| Decoder, encoder, muxer tasks `crates/ffmpeg-bus/src/{decoder,encoder,bus}.rs` | a bounded queue and a broadcast each | relay, loop, EOF count | each other |
| GB bridge `nvr/src/gb/*` and ZLM worker `nvr/src/zlm/cmd.rs` | stream map, `active` pulls, worker's RtpServer table, command queue | `on_media_not_found`, `on_media_no_reader`, map, unmap, `shutdown` | hooks of ZLM, SIP server, worker thread |
| GB server `crates/gb28181/src/{server,registrar,auth,manscdp}.rs` | registrar, `dests`, nonces, pending catalogs | REGISTER, keepalive, sweep, `catalog_query`, `device_control` | devices over SIP, events to the application |
| Compositor programs `nvr/src/compositor`, `crates/nvr-compositor` | map of programs, sources and pool and slots of each, one KV row | `create`, `remove`, `switch`, `relayout`, `add_source`, `remove_source`, `persist_all`, `restore_all`, `shutdown` | API, database, reconnecting sources |
| Audio mixer `nvr/src/audiomixer`, `crates/nvr-audio-mixer`, `crates/ffmpeg-bus/src/audio_mixer.rs` | pool of sources, buses with controls, a mixing thread per bus, one KV row | the same for buses and inputs, `set_volume`, `set_muted` | API, database; threads by a command queue |
| Devices `nvr/src/handler/device.rs`, `nvr/src/init/device.rs` | device rows; beside them a source, a GB mapping, an ONVIF entry | add, update, remove, pipe API, start-up | database, registry, GB bridge, ONVIF |
| Users and sessions `nvr/src/auth.rs`, `nvr/src/handler/user.rs` | user and session rows, cache of tokens | login, validate, logout, password, add and remove users | every other handler (`require_auth`) |
| Recordings `nvr/src/{zlm/server,cleanup,transport,handler/playback}`, `nvr-db` | files, segment rows, targets, jobs, policy | record hook, cleanup, transport, play, delete | ZLM, FTP/SMB, the player |
| Xiaomi cameras `crates/xiaomi`, `nvr/src/xiaomi.rs` | login scratch and credentials, CS2 channels, stream worker | login with captcha and verification, handshake, commands, records | account service, camera, ZLM |
| Stream supervisors `nvr/src/livestream.rs`, `nvr/src/onvif/ingest.rs`, `crates/nvr-compositor/src/source.rs` | delay, session, token | resolve, run, back off, stop | pipes, cameras |
| Recorder `crates/nvr-recorder` | session, open segment, retries | record, rotate, announce, retry, stop | demuxer, disk, consumer |
| Switcher `nvr/src/program`, `crates/nvr-switcher` | active source, keyframe flag, frame channel | create, switch, remove, program loop | decoders, encoder |
| Taps `nvr/src/asr`, `nvr/src/detect` | registry of taps, models under a lock | start, stop, tap loop | pipe, models |

What is hard in them, and what would make each correct:

* **Registry.** Calls release the map's lock while the old source unwinds and while the new
  one is built, API futures can be dropped at any await, workers are given up on after 3 s.
  Correct: one source per id at a time, no running source that nobody can stop, and shutdown
  leaves none.
* **Pipe and coordinator.** Video and audio forwarders share a barrier in front of ZLM's
  `init_complete`; a track may be rejected, silent, or late, and the input may end or be
  cancelled at any point. Correct: no frame before `init_complete`, which happens once, with
  all kept tracks; it is not missed; and everything unwinds.
* **Bus.** A command has several fallible steps, and tables are shared between outputs.
  Correct: an accepted output is fed, it gets what it asked for unless an earlier command had the shared task started
  otherwise, and there is one reader.
* **Transcoding.** Five stages with bounded queues and lossy broadcasts. Correct: lossless
  outputs lose nothing inside the tasks, order is kept, and the EOF reaches the muxer.
* **GB bridge.** Hooks overlap; servers are keyed by stream id alone; closing is a
  fire-and-forget command sent on drop, into a bounded channel. Correct: no RtpServer without an owner, no
  SIP dialog without somebody who will send its BYE, and a pull in `active` has its server.
* **GB server.** Each request is handled in its own task over two maps with a lock each,
  beside a periodic sweep. Correct: the maps and the event stream agree, a nonce is used once, a
  device does not go offline unless it is overdue, and calls end.
* **Programs and mixer.** A map, a row that mirrors it and threads that lag behind it, with a lock each and awaits
  between; a restart rebuilds the map from the row while the API is already open. Correct: what the row holds
  can be restored and nothing that was answered is forgotten, nothing decodes or publishes unowned, and
  a knob that is listed is the knob that is heard.
* **Devices, users and sessions.** Rows and what runs for them are changed one after the other; any statement may fail, the process may
  restart. Correct: at rest, row and running agree; a revoked session stays revoked, in the cache too.
* **Recordings.** Four writers over files and rows without transactions. Correct: no file out of sight, no job done without a
  copy, nothing removed before it is due, every segment tried, and a Range answered with its bytes.
* **Xiaomi.** A lossy, reordering network, numbers that wrap, a reorder window and a bounded queue, acks
  that name no command. Correct: the frames are the camera's, in order, once; what is acknowledged is kept.
* **Supervisors, recorder, switcher, taps.** Loops that must neither give up nor hammer, must stop when told, and share flags with API
  calls. Correct: see the run `Feeds`.

### Not modelled

`PROJECT.json` lists every one with its reason. In short:

* *data or I/O, nothing for a model checker*: FFmpeg wrappers, encoder and decoder options, SIP/SDP/XML/PTZ codecs, ONVIF SOAP
  and discovery, SQL text, scaling, drawing and sample arithmetic, model inference, cryptography, listings and playlists,
  the HTTP router, proxy and metrics, the dashboard;
* *used in tests only*: the GB28181 client (lower platform). The device in `GbServer` and `GbBridge` is free to do anything;
* *not composed*: the order in which `main` starts and stops the components, each of which has its own start and end; the
  RawFrame and RawPacket outputs of a pipe, which the application does not use; the Xiaomi talk-back channel.

## 2. Modules

`X.tla` is a component, with its properties and the mutated forms of the definitions
(plausible bugs, each of which some property must catch); `MCX.tla` gives its constants values
for TLC. The theorems about Pipe, GbBridge, Programs and Mixer are in `X_proofs.tla`; those about the smaller components are grouped: `Sources_proofs` (Manager,
Bus), `Media_proofs` (Transcode, Feeds), `Protocols_proofs` (GbServer, Xiaomi), `Nvr_proofs` (Api, Archive). `PROJECT.json` "map" gives the
source lines of every definition.

**Manager.** The variables are the registry (`registry`), the sources ever spawned (`sid`,
`kind`, `state`, `cancelled`) and the calls (`pc`, `cid`, `ckind`, `held`). A call is a
sequence of steps separated where the code gives up the lock: take the old entry, cancel it,
join it, build the new source, insert. A caller may be dropped at an await (`abandoned`),
which drops what it `held`. A pipe's or task's source ends some time after its token
fires, unless it is `stuck` (an open or read that never returns, the track barrier). A worker's may not end either, and is detached after the join bound; a stuck pipe
is waited for without a bound. Sources also end by themselves. `contended`, `abandoned`, `detached` are observations: no guard reads them.

**Pipe.** `phase` and `next` are the program counter of `start()`. `input`, `removed` and `sent`
are the reader and its broadcast; `since` is where an output subscribed to it, which may be after the end. A broadcast is the sequence of everything sent, with a position per receiver,
and a receiver more than the capacity behind is Lagged and skips. Then there are the relays, the demuxed
queues, the forwarders and the coordinator. A packet is its
position in reading order.

**Bus.** The actor handles one command at a time, so a command is one action with one
disjunct per way it can fail half-way; what each leaves in the tables is the point. Codecs
are names; a container is a sequence of streams. `epoch` says which opening of the input a
task was started for.

**Transcode.** One stream through the five stages of a transcoding output, with the token of the
reader firing between and within reads. A packet becomes one frame and a frame one packet, at
once, or is refused (the external codec). The decoder task is there from the start; the encoder task and the muxer may come at any time after it
(`StartEncoder`, `Attach`), and each task was started lossless or not, by whatever output or tap came first.

**GbBridge.** One action per step between awaits of a hook or API task, `WorkerStep` for
each command, the janitor that ends dialogs of dropped `MediaSession`s, the device, and
`gb::shutdown`. A BYE may fail, by a handler (`Bye`) or by the janitor: it is logged, the session is marked stopped before it was sent, and the dialog
becomes "failed"; one whose answer does not parse becomes "stray". A pull is named by the task that makes it. A full command queue refuses
(`try_send`) a CloseRtp; the stream is then recorded in `lost`. `contended` (two tasks busy on the stream) and
`late` (pulls that shutdown could not see) are observations too.

**GbServer.** A REGISTER passes through parse, digest, registrar, dests, event and reply, each
under its own lock; the sweep takes the devices out of the registrar and then
deals with each; calls read `dests`, send, wait for the reply or a timer. `disturbed` observes what the agreement
properties must exclude: overlapping handlers of a device, a sweep between them, an unroutable request, a reply that
could not be sent.

**Programs.** An API call, `restore_all` and the teardown are processes; every lock taken or await passed is a step. An entry
of the map has handles (a source is hot, still retrying, or off), a pool, region slots with a generation, and its loop. `Down` and `Up` are crash or exit and
restart; the row survives. `owed`, `raced`, `torn` and `clean` are observations.

**Mixer** and **MixConsole.** The pool, the buses with the API's controls, the threads with inputs of their own and the queues of commands. A
knob is shared by reference, so an input that is removed and added again gets a new one. `MixConsole` is what a console promises: what
each bus mixes, and that it changes by one operation at a time. `Mixer` implements it by `desk <- Heard`, what the threads will hear once their queues are applied.

**Archive.** The record hook, the cleanup worker, the transport worker and the API calls over files, rows, targets and jobs, one
step per statement and per file operation, with faults and a crash. Time is counted in half days so that the text comparison of two timestamp
formats (whole days) is visible. A scenario says which recordings, requests, policy and targets a behaviour has.

**Devices**, **Accounts**, **Api.** A device call is a list of steps (rows, source, mapping, registry), each of which may fail and
end it; start-up works through the rows it listed. A session is a row and a cache entry; `validate` reads one and fills
the other. A handler may be dropped after it has written the row (`DropCall`), and the start-up may be unable to list the rows (`BootListFails`); `mixed` and `down` observe them. `Api` puts `require_auth` in front of both and restarts them together.

**Cs2**, **Cloud**, **Xiaomi**, **RecordStream.** `Cs2` is the transport byte by byte: datagrams with wrapping numbers, a reorder buffer, records cut
anywhere, acks, queue limits, and the camera and the network as external actors. `Cloud` is the login with its captcha, verification and redirect
branches, where every response may bring credentials, blank ones or none (`Answers`), as the client looks at neither status nor values. `Xiaomi` composes them into the validation tool and the stream worker. `RecordStream` is what the reader is promised; the worker
implements it by `out <- frames, over <- (pc = "ended")`.

**Supervisor**, **Recorder**, **Switcher**, **Taps**, **Feeds.** The four kinds of loops around a camera. They share nothing but the camera, so a
behaviour of `Feeds` looks at one of them. In `Recorder` a packet is its place in the session's script, and a file has the name of the second its first packet was taken in: `disk` is what each
name holds, `files` what was written as a segment. In `Switcher` a frame is its source, and two requests may switch at once. In `Supervisor` a session that stands
still (`Hang`) is "held" until the far end or the silent track lets go of it.

### How they compose

The modules meet at the interfaces of the code. A Manager source of kind "pipe" is one
`Pipe` behaviour: Manager assumes that it ends some time after cancel, and `Pipe` shows when that is
true (`Unwinds`) and when it is not (a silent track, section 4). A `Pipe` relay is what
`Bus` accepts for a Demuxed or Network output; `Transcode` is what `Bus` starts for an output
with an encoder. `GbBridge`'s INVITE is the call the platform server offers, whose own table
is in `GbServer`. A source of `Devices` is an entry of `Manager`, a mapping is one of `GbBridge`'s map; a "stream" or
"onvif" entry runs a `Supervisor`, a "xiaomi" one the worker of `Xiaomi`. A source of a program in `Programs` runs the pool loop of
`Supervisor`. A tap subscribes to a decoder that `Bus` starts. `Api` and `Xiaomi` compose their parts in TLA+; the others meet in these assumptions only.

## 3. Runs

| run | instance | shows |
|---|---|---|
| `Manager` | 1 id, 2 callers, 2 sources | `SourcesOwned`: one source of an id at a time, none unreachable, none registered that was told to stop, none after shutdown; `AllReturn`, unless a stuck source is waited for |
| `Pipe` | a network push listed first, then video and audio to ZLM; 2 packets, capacities 1 | `BarrierSound`: safe and prompt; `FramesIntact`: order, loss only by lag, release; `Unwinds` after cancel, and after the input's end if a forwarder hears of it |
| `Bus` | a camera with sound, a file with two sound tracks, a screen; 2 openings | `OutputsServed` after every partial failure and after remove and re-add; `AsAsked`: only an earlier command's task makes an output differ from what it asked for |
| `Transcode` | 4 packets, capacities 1 and 2, tasks of either mode that start at any time | `FlowKept`: nothing but refused packets lost between lossless tasks, order; `EofPasses` to a muxer that was there |
| `GbBridge` | 1 stream, 2 tasks and shutdown, queue of 2 | `PullsOwned`: no server leaks, a session gets its one BYE; `PullIntact`; `TeardownComplete`: shutdown releases, tasks end |
| `GbServer` | 1 device; 3 REGISTERs, or 1 with a call | `RegistrationsAgree`: tables and events; `OnceOnly`: nonces, motion commands, whole catalogs; `NothingOverstays` |
| `Programs` | 2 programs, 2 sources (1 unreachable at times), 2 calls, 2 boots | `RowRestorable` (from a row that can be restored), `NothingForgotten`, `NothingOrphaned` |
| `Mixer` | 2 buses, 2 sources, up to 2 calls, restore, shutdown, 1 fault | `KnobWorks`, `NothingUnowned`, `SavedAsIs`; `ConsoleImplemented` (refinement of `MixConsole`) |
| `Archive` | 3 recordings on 2 paths, 2 targets, ten scenarios | `NothingStranded`, `DoneIsCopied`, `RangeServed`, `RemovedWhenDue`; `Transported` |
| `Api` | 1 device id, 6 configurations, 2 users, 5 tokens, ten scenarios | `DevicesAgree`, `SessionsCurrent` |
| `Xiaomi` | 3 records cut into 4 or 9 datagrams, numbers modulo 8, network of 1 packet each way | `AckedIsKept`, `SentIsReceived`, `LoginResumes`; `FramesInOrder` (refinement of `RecordStream`); `CancelNoticed` |
| `Feeds` | one puller at a time; delays 1 to 6, six packets and 2 sessions, a clock of 2, 2 sources and 2 concurrent switches, 2 tap starts | `DelayFollowsMisses`, `RecordingWhole`, `OnAirKeyed`, `TapsOwned`; `Reconnects`, `EndsWhenTold` |

Every run's `TypeOK` is either part of a proof (section 5) or kept as the module's documentation of its state.

**Why the bounds suffice.** The maps are keyed and every operation touches one key, so one id, stream or
device shows every conflict. Two concurrent calls are the smallest number that race; a third REGISTER lets a
handler start after two have overlapped. Two sources let an old one outlive a new one. Queue capacities
of 1 and 2, smaller than the number of packets, make "full", "lagged" and "empty" all reachable. Four
packets let the ring of two wrap in front of both relays. `NonceTTL = 1` with a clock of 2 puts an
authorisation before, at and after the expiry. `Expires` in {-1, 0, 2} is below, at and above the test for
unregistering. Two openings of the input are the smallest number with a stale task.
Two boots are a crash and a restore; three sets of calls in `MCPrograms` and `MCMixer` put two calls beside one another, one beside
`restore_all`, and one beside the teardown, and one start of `MCMixer` has a saved bus without inputs. The scenarios of `MCArchive` and the cases of `MCApi` each pair the actors that can meet on one row; all at once
would be the same pairs and too many states. Three recordings on two paths give a path that is recorded twice. Nine datagrams with eight numbers make the sequence numbers
come round; a reorder window of 1 and a queue of 1 make both overflow. Six misses let both delays reach their ceilings. Six packets hold two keyframes
and a segment of length 2 between them; a clock of 2 puts two segments into one second or into two and reaches one boundary of the wall clock. Two switches, each in two steps, overlap in every order. The remaining bounds cap counters only.

**Deadlock** checking is off except in `Archive`: the other systems come to rest once their finite workload is used up (`Archive`'s workers go on
ticking). What would be a deadlock is stated instead as liveness (`AllReturn`, `Unwinds`, `EofPasses`, `TeardownComplete`, `NothingOverstays`, `CancelNoticed`, `EndsWhenTold`).

**Fairness**, and why the code justifies it:

* Manager: a call's next step is scheduled by tokio unless it is dropped; a cancelled pipe or task selects on its token unless it is stuck. Shutdown
  takes at most 3 s over a worker; a stuck pipe holds it, and that is the exception `AllReturn` names. There is no fairness on workers, on sources ending by themselves or on new calls.
* Pipe: `start()`, relays and forwarders are tasks whose awaits are enabled. Nothing is fair about FFmpeg: an open or a read may take for ever, since only
  `rtsp://` addresses are given a socket timeout (`stimeout`, `manager.rs:127`, `livestream.rs:129`), and the input may be silent. `Unwinds` names both, and the barrier.
* Transcode: each stage has a task or thread of its own.
* GbBridge: tasks, shutdown and the worker thread are scheduled; awaits on the device have SIP timers, so that a BYE ends, with success or not; the connect has its 5 s timer. Nothing is assumed of ZLM's callback, of the janitor or of the device.
* GbServer: the sweep is an interval timer; the steps of a call are bounded by SIP and query timers. Nothing is fair about the device.
* Archive: the transport worker is a task with an interval timer; its upload is not fair, as neither FTP nor SMB has a time limit (`ftp.rs:23-54`, `smb.rs:44-70`): `Transported` excepts a
  worker that stays in one. Nothing is fair about cleanup, ZLM, the API or the remote end.
* Xiaomi: the stream worker's thread runs, and its timed waits end. Nothing is assumed of the camera, the account service or the network.
* Feeds: what the supervisors, source loops, the recorder and the program loop do by themselves is fair (`Puller`, `ProgramStep`); the consumer of the recorder's announcements listens. What waits for
  somebody else without a time limit is not (`FarEnd`, `SinkStep`): asking for an address (`nvr-yt-dlp` has a limit, the ONVIF client is given none), opening an input (`nvr-compositor/src/source.rs:179`), a read, the track
  barrier, and the output of a program. `Reconnects` and `EndsWhenTold` except a loop that is held so for ever (`Held`, `Writing`). The camera
  is not fair; `Reconnects` assumes of it that it stays reachable from some time on.
* Bus, Programs, Mixer and Api have safety properties only.

## 4. Where the code and its comments differ

The properties say what does hold; observation variables (`contended`, `raced`, `torn`, `clean`, `mixed`, `stale`, `late` ...) mark where it stops. What lies beyond, met while modelling:

1. `manager.rs:90` says same-id sources never overlap. They do when two calls on the id are in flight together, and the overwritten one leaks.
2. `media-pipe-zlm/src/lib.rs:249`: a forwarder waiting at the barrier heeds neither the token nor the end of its stream, so a
   pipe with one silent track cannot be cancelled. Whoever waits for such a pipe waits with it, and none has a bound: `Entry::join` for updates, removals and the shutdown (`manager.rs:45-51`), `run_session` for the
   supervisors (`livestream.rs:103-109`, against its comment at 79-81 that the teardown always runs).
3. `ffmpeg-bus/src/bus.rs:999`, `1144`: decoder and encoder tasks are keyed by stream index alone, and a second output gets the first one's packets, whatever it asked for. A File or Net transcode, which is to be
   lossless (`bus.rs:457`), so gets tasks that drop when a live output or a tap came first.
4. `ffmpeg-bus/src/decoder.rs:328`: `Ok(packet) = recv()` in `select!` disables the branch on Lagged; the relay then listens
   to its token only and the EOF never lands.
5. `nvr/src/gb/bridge.rs:112` says overlapping pulls of one stream self-heal. They do not: the loser's CloseRtp takes the winner's server.
6. `gb28181/src/manscdp.rs:286`: an empty catalog, or one with a chunk counted twice, comes back with `incomplete = false`.
7. `compositor/mod.rs:128`: two creates of one program both start; the loop of the first to insert is replaced with the entry, and saves of overlapping calls may land in the other order.
8. `auth.rs:82`: a validation that read the row before a revocation fills the cache after it, and the revoked token works until the next restart.
9. `xiaomi/src/cs2.rs:293`: any ack releases the waiting writer, also one of an earlier command.
10. `compositor/mod.rs:446`: `to_persisted` reads the regions of a program and then its sources. If a `remove_source` comes in between, the row of
    another call's `persist_all` has a region whose source is gone, and `create` refuses that program at every start until a later save. `torn` marks these; `RowRestorable` without it fails on
    `Programs`' instance, which is how it was met. `create` also takes a source listed twice, and `remove_source` then leaves one handle with nothing in the pool (`ListedOnce`).
11. `asr/hub.rs`, `detect/hub.rs`: a tap that ends by itself stays registered, and `start` answers "already running" until `stop` is called.
12. `gb28181/src/server.rs:113-116`, `656`, `bridge.rs:198-200`: a session is marked stopped before its BYE is sent; one that fails is logged, nobody repeats it, and the device goes on sending. So does one whose answer
    to the INVITE does not parse (`server.rs:328`).
13. `media-pipe-core/src/pipe.rs:174-179`: a Network output listed first starts the reader at once. If the input ends before a Demuxed output has subscribed, no forwarder hears of it, and `start()` waits to be cancelled.
14. `transport/worker.rs:79-81`: an upload that never returns holds the only worker, and with it every target.
15. `nvr/src/init/device.rs:32-33`: if the rows cannot be listed, no device is started, and neither the compositor's programs nor the mixer's buses are restored (46-55), until the next start. `handler/device.rs:129-151`: a handler
    dropped after the row was written leaves the row and what runs different.
16. `xiaomi/src/cloud.rs:295-331`: `finish_auth` returns Done whatever the responses were, so that Done may hold no credentials, against the comment at line 30; a captcha without its cookie (`210-213`) is asked for and then refused (`137`).
17. `nvr-recorder/src/recorder.rs:264-269`, `config.rs:88`: a segment's file has the second in its name, and a second one of that name truncates the first. After a stalled announcement the backlog is worked off at
    once, and with rotation by media time, or after a reconnect, that happens. With `align_to_wall_clock` a rotation never does it.
18. `audiomixer/mod.rs:79`: a bus needs an input to be created, and none to be saved. When its last input is taken it is persisted without any, at the next start `create_bus` refuses it
    until the budget is used up, and the save of the next bus drops it from the row. `clean` marks that; the instance has such a row.

No run of this project is about these: every run checks what holds, so the list is read from the source. The runs reach 2, 3, 4, 10, 12 to 18, since there the code's behaviour is
part of the model and the property names it; the others are marked by an observation variable.
`PROJECT.json` "hazards" has these at their lines, with the property that holds up to them.

## 5. Proofs

All theorems hold for every value of the constants that meets the assumptions named in the modules. TLC evaluates each of them on a run.

* "None" is no identity (`NoneAssumption`, `BridgeAssumption`, `TapsAssumption`, `None \notin Entry` of `ServerAssumption`, and parts of `DevicesAssumption`, `AccountsAssumption`,
  `ArchiveAssumption`, `MixerAssumption`); capacities and batch sizes are positive (`BoundsAssumption`, `CapsAssumption`, `CloudAssumption`, `SwitcherAssumption`).
* What the inputs are: `OutputsAssumption`, `ContainersAssumption`, `ConfigsAssumption`, `RecorderAssumption` (packets are key frames, deltas or audio), `ApiAssumption` (scenarios hold requests and sessions of the
  sorts there are; the token of a login to come is new, as a random one is), `AccountsAssumption` (there is the administrator `init` makes).
* Finitely many sources (`MixerAssumption`), recordings (`ArchiveAssumption`: the table has a total of bytes) and device ids (`DevicesAssumption`: start-up lists the rows).
* `ProgramsAssumption`: a request to add a source names one, as `MixerAssumption` says of one about an input. `StartsAssumption`: the row the process first finds is one `create` accepts; an
  older build or a hand could have written another, which `restore_all` logs and skips.
* `Cs2Assumption`: the number space is even, which 2^16 is, and the camera sends no further ahead than half of it. The second is about the camera, not the code: with a wider window
  the signed difference of `push_seq` takes new datagrams for old ones. `SplitsCoverTheWire`: a camera sends what it has, cut up.
* `SupervisorAssumption`, and `CeilingAssumption`: the last step of the pool's exponent reaches the ceiling (`source.rs:76-78`: 3 s doubled 16 times is more than 30 s).

**Sources_proofs**, of the registry: `TypeCorrect`, `Exclusive`, `NoLeak`, `RegisteredIsRunnable`, `ShutdownStops`, and together `SourcesUnderControl` (the run's `SourcesOwned`). "Two sources
never run together" is not inductive: a step can create a second source if the first is live and held by nobody. The
invariant therefore says where a live source can be.

* `RegistryInv`: a registered source was built for that id and has not been cancelled.
* `HeldInv`, `DrainedInv`: what a call or the shutdown owns exists, is cancelled unless it is about to be inserted, and is in no other place.
* `ContentionInv`: `contended` misses no overlap of two calls, or of a call and shutdown.
* `VacantInv`: while a call works on an orderly id, nothing is registered for it.
* `OwnedInv`: on an orderly id, every live source is registered, held by a call, drained by shutdown, or a detached worker.
* `CancelledInv`: no source is cancelled before it is spawned; every detached one has been.

Of the bus: `OutputsServedAlways`, `AsAskedAlways`. `BusInv` says of every state `ReaderOk` (the one reader there can be is of the input there is, unless that is still to be read),
and of every state before the input is removed `ServedOk`: the listed streams are one container's, in some order, and every decoder, encoder and accepted track is of that opening. Neither property is
inductive: a command that fails half-way leaves tasks that the next one takes over, and whether the next one may is what `ServedOk` says. `AskedOf` says of every task
that some command asked for it: an encoder is of the codec one asked for, and a task drops only if one asked for that; `TracksOf`, that each track of an accepted output is as asked, or of a stream the output
clashes on with an earlier command. Both have to be kept through the commands that fail after some tasks are started, and those that find a task somebody else had started.

**Pipe_proofs**: `PipeTypeCorrect`, `BarrierIsSafe`, `BarrierIsPrompt`, and together `BarrierIsSound` (`BarrierSound`), for any sequence of outputs. `CoordInv`
ties the coordinator's counters to the states of the outputs: `ShapeOK` (types), `OutInv` (the outputs from `next` on
are exactly the undecided ones), `CountInv` (the two counters are the cardinalities of the registered tracks and of the
Demuxed outputs not rejected), `FwdInv` (forwarders exist for kept outputs only, after all outputs are settled; a registered one
is at the barrier until it opens, and nothing is delivered before), `DoneInv` (`init_complete` was called once, exactly when
the registered tracks are the kept ones). Being prompt follows because no forwarder starts before `expected` is
final, so the last registration finds the two counters equal.

`FramesAreIntact` (`FramesIntact`) follows the frames through the same steps. `FrameInv` adds to `CoordInv`, for every output,
that what was delivered, the frame at the barrier and the channel are one rising line of packets the relay has received (`Line`;
without a broadcast lag all of them, `Full`), that an End stands only last in the channel of a relay that has ended, and that a
forwarder ends only behind an ended relay and an empty channel; and `EndInv`: a relay ends, and an EOF is sent, only when the reader has
ended. "What was delivered is rising" alone is not inductive: the next frame comes from the channel. The lemmas `LinePush`, `LineTake`, `LineSkip`,
`LineSend`, `LineEof` and `LineMore` say what each operation does to the line, then there is one lemma per action.

**GbBridge_proofs**: `BridgeInvariant`, and from it `BridgeTypeCorrect`, `NoServerLeak`, `SessionsOwned` (together
`PullsOwnedAlways`, of the run's `PullsOwned`; dialogs whose BYE failed or that never became a session have no owner, see section 4, item 12) and `SequentialPullsIntact`. The invariant `IInv` follows a server from the OpenRtp command to the last CloseRtp: `QueueInv`, `PlaceInv` (a handle is in one
place: its task, `active` or a victim), `DialogFresh`, `ServerOwned`, `DialogOwned`; and, for streams
whose tasks never overlapped, `OneBusy`, `Alone`, `PullKeeps`, `ClosesFirst` (a CloseRtp left
from an earlier pull stands in the queue before the OpenRtp of the next), from which `PullIntact`. `ShutdownReleasesAlways` is the safety half of `TeardownComplete`: `ReleaseInv` says
where a pull in `active` stands once shutdown has begun (out of its sight, on its list, or on the stream it is at).

**Media_proofs**, of a transcoding output: `FlowKeptAlways` (`FlowKept`), for any capacities and any number of packets. `FlowInv` has one part per
stage: `ReaderOk` (packets are numbered, nothing follows EOF), `DecoderOk` (the decoder's relay passes over no packet: what it took is decoded, refused by the codec or
queued), `EncoderOk` and `MuxerOk` (what was emitted is rising and before what is still queued or not yet received), `LosslessOk` (a lossless decoder never gets ahead of the relay by more than
its channel holds; with a lossless encoder too, what was emitted, queued or refused is exactly what was taken since the encoder began). The encoder and the muxer may start at any time, on a decoder that has been at work. "Increasing" alone is not inductive: a stage could repeat an item that is
still in its queue.

**Protocols_proofs**, of the GB28181 server: `RegistrationsAgreeAlways` and `OnceOnlyAlways`. `RegInv`: `OneAtATime` (of the handlers and sweeps of an orderly device
one is at work), `AsSaid` and `DestSet` (registrar and destinations hold what the handler that is through said), `EventDue` (an event
not yet emitted belongs to the handler or sweep at work), and `OfflineIsOverdue` for every device. `NonceInv`: a nonce
that let a REGISTER in is no longer outstanding. `CallInv`: `SentOnce`, and `ChannelsOnce`, by which the channels collected for a
call are distinct, so that as many as SumNum are all of them (a pigeonhole over finite sets, lemma `AllThere`).

Of Xiaomi: `LoginResumesAlways`, `SentIsReceivedAlways`, `AckedIsKeptAlways`, and `FramesInOrderAlways`, the refinement of `RecordStream`.

* `LoginInv`: what the scratch map and the credentials hold at every turn of a login, so that every `LoginStep` handed back can be answered.
* `SendInv`: an ack is sent by a camera that has the command; while a writer waits, nothing of another command is about, unless `stale` says so. The slot fires for any ack (section 4, item 9), so "sent"
  has to be tied to what is on the network.
* `AckInv`: what may be under way of a channel lies in the camera's window, so that a number stands for one datagram and the signed difference is exact (lemmas `AheadIs`, `SeqNoDiffer`, for any even
  modulus); what is buffered under a number is that datagram; what is acknowledged was taken or is buffered. The loop that drains the buffer takes at most a turn for each
  place in it (`DrainTurns`, `TurnOk`).
* `FramesInv`: the bytes taken from the datagrams are the wire up to the end of the last one taken; records `n+1` to `m` are in the queue, the bytes of the next one, its prefix cut off or not, in the channel
  (`Assembled`); and the frames are those of the first `n` records. Over TCP no datagram is under way but the next one. Then every step is `Reader!Deliver`, `Reader!Finish` or a stutter.

**Mixer_proofs**: `ConsoleImplementedAlways`, the refinement of `MixConsole`; `KnobWorksAlways`; `NothingUnownedAlways`; `SavedAsIsAlways`. All rest on `MixInv`.

* `CallsOk`: how far a call is fits what it was asked, and it owns a source or a mixing thread only between making and handing it over.
* `PoolOk`, `SourcesHeld`: a pooled source is of its device; a running one is pooled or with a call.
* `LoopsOk`: of every thread, the knob the API turns is the one it reads after its queue, or none when a source of that
  device has ended; no two inputs share a knob, without which turning one could change another.
* `BusesOk`, `MakingOk`, `LoopsHeld`: a thread is on one bus or with the one call that makes it, and then nothing on it is muted yet, which
  is why listing a bus is the console's `Open`.

The lemmas about a thread's queue (`AppliedAppend`: the last command for an input decides) and about the operations (`PlugOk`, `UnplugOk`,
`TurnOk`, `FlushOk`, `DeadOk`, `FilledOk`) say what each does to what is heard; `LoopAllowed`, `ListAllowed`, `AddAllowed`,
`DetachAllowed` and `SilentAllowed` name the operation of `MixConsole` it amounts to; then there is one lemma per action.

`SavedAsIsAlways` needs `SaveInv` beside it, since the row lags behind the buses during every call and all through `restore_all`:

* `HaltJobOk`, `AloneOk`, `UntouchedOk`: while `clean` holds one is busy, and nothing is restored or called once shutdown has begun.
* `SnapOk`: what a call read for its save is still what the buses are; `RowOk`: so is the row, unless somebody is about to write it, `restore_all` is making a bus, or it has not begun.
* `RestoreOn`: a bus is still to be restored, or is as the row had it at the start, or is the one under way, and then (`Restores`) the inputs whose sources are pooled,
  the settings of the loop and the mutes left to set add up to the saved bus. `SetMuted` in `restore_all` is shown to take exactly one mute off what is left.

**Media_proofs**, of the feeds: `OnAirKeyedAlways`, `TapsOwnedAlways`, `RecordingWholeAlways`. `SwitcherInv`: a source that is active and not yet on air has its keyframe asked for, unless a
switch is between its two steps or somebody raced (`raced`). `TapsInv`: `TapsOwned` with `LoaderLocks` (a request that loads holds the lock) and types. `RecorderInv`: where the recorder's position,
its inbox, the pending packets and the open file meet (`InboxOk`, `PendOk`, `WriterOk`, `RotationOk`, `SessionOk`), so that every packet written follows the last.
`FilesInv` adds the disk: the open segment is in the file of its name, and while segments are cut by the wall clock in one session every finished one has an older name (`ClockedOk`), so that what is opened next truncates none of them (`FilesStand`).
`DelayFollowsMissesAlways`: the property speaks of the delay last slept, the loop keeps the one it will sleep next, so `DelayInv` says of both which number of misses they belong to (`DeviceDelays`), and of a pool that
its counter is that number (`PoolDelays`). The cap of the exponent never shows, because the ceiling is reached first (`PoolDelayIs`).

**Programs_proofs**: `NothingOrphanedAlways`, `NothingForgottenAlways`, `RowRestorableAlways`. Each property speaks of programs at rest, and is broken in the middle of every call;
the invariants say what holds there.

* `SafeInv`: `CallsOk`, `BootOk` (how far a call is fits what it was asked, and what it has in hand is an entry of its program), `RaceOk` (`raced` misses no overlap), `HoldOk` (off
  `raced`, a call about to insert finds no entry in the map, any other has the one in the map), `SnapOk` (what `persist_all` snapshot is still all that runs), `LockOk` (`remove_source` keeps
  its lock), `DownOk`, and `OrphanOk`: an entry neither in the map nor in a hand is dead.
* `KeptInv`: while no calls overlap, `AloneOk` (one is busy, and nobody once the process stops), `OwedOk` (what is owed runs or is before `restore_all`) and `WorkOk` (what a call
  has created is in what it read for its save). `NothingForgotten` alone is not inductive: the save writes what was read two steps before.
* `RowInv`: `WholeOk` (an entry shows listed sources, and its pool is its list but for the call in the middle of `add_source` or `remove_source`), `ReadyOk` (what those two still
  have to do makes it whole again), `RowOk` (the row, what a save has read, and what `restore_all` has before it can be created, unless `torn`).

There is one lemma per action and invariant; `MineIs`, `MovesTo` and `RestingOkNext` are the frame facts they share.

**Nvr_proofs**: `DevicesAgreeAlways`, `SessionsCurrentAlways` (both of `ApiSpec`, where every request passes `require_auth` and one restart ends all calls), `NothingStrandedAlways`, `DoneIsCopiedAlways`,
`RangeServedAlways`, and the action property `RemovedWhenDueAlways`.

* `DevInv`: of a device whose calls did not overlap, what runs fits the row (`Fits`), or fits it once the one call at work has done the rest of its steps (`Early` before it has written the row, `LateOn` after);
  during start-up, it fits or the device is still on the list and nothing runs for it. After a start-up that could not list the rows
what runs need not fit, but what does run still does (`Up`). The property speaks of rest only, and every call passes through states where row and running differ.
* `AccInv(of)`: every token has one owner for good (`of`), and of a user whose revocations overlapped nothing: no session that lets in is older than the password (`Sound`), and what every request under way
  has read of the user still holds (`Relies`). Without `Relies` nothing excludes a validation that fills the cache after a revocation, which is what happens when they overlap (section 4, item 8).
* `ArcInv`: with `NothingStranded`, what the cleanup worker and the deletes rely on between the file and the row: the row's file is gone, known to be left, or recorded again (`Cleared`). `ArcMoves` says what any step may do to hooks,
  files and rows; each actor's reliance is shown to outlast it.
* `DueInv`: `AgeOk` (what is on the list is past its age, by the policy the worker read), `OneRow` (a path has one row), and `BudgetOk`. The worker compares the cap with a total it read before, and takes off what it listed, while a recording that
  replaces another may make a row grow or shrink. `Budget` covers the total row by row: by no more than the row has now, and no more than was listed. Totals are sums over finite
  sets, and `TableSumIs` says that they are what the fold over the rows computes.
* `DoneInv`: a destination that once held a path goes on holding a recording of it, and the worker marks a segment only with such a copy. `PlayInv`: the call keeps the range it read and the length it parsed it for.

Every inductive invariant was first checked with TLC.

**Induction over data.** The induction theorems of the library take an operator, which the provers cannot instantiate. Recursive definitions
are reasoned about nevertheless, through lemma `LeastNat` or `LeastSet` (a set of numbers, or of finite sets, that is not empty has a least element, from the well-foundedness of inclusion among
finite sets) applied to the set of counterexamples, which is first-order: `FlattenSeq` of recorded files, streams, records and frames, `Filled` of the mixer, the powers of two of the
delays, the sums of the archive, and the loops of `push` and `push_seq`.

**Only model-checked**: the liveness properties (`AllReturn`, `Unwinds`, `EofPasses`, `TasksEnd` of `TeardownComplete`, `NothingOverstays`, `Transported`, `CancelNoticed`, `Reconnects`, `EndsWhenTold`), for
which the prover has neither fairness nor ENABLED. Every other property of the runs is a theorem.

## 6. Hazards

`PROJECT.json` "hazards" has the list, each at its line with the properties that would catch it. A note says where a property
holds only up to a behaviour of section 4. Two have none, since there the hazard is what the code does (items 4 and 7).

## 7. Plan

Done: the modules above, and a proof of every safety property. Next, in order of importance:

1. `Devices` over abstract forms of Manager and GbBridge, which the two are then shown to implement.
2. The start and teardown order of `main` over the components' own.
3. The raw outputs of a pipe and the talk-back channel, if the application comes to use them.
