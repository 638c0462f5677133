----------------------------- MODULE Supervisor -----------------------------
(* The reconnecting pullers. A device of type stream or onvif is pulled by a  *)
(* supervisor that resolves its address, runs one pipe over it and backs off  *)
(* (nvr/src/livestream.rs, nvr/src/onvif/ingest.rs). A source of a compositor *)
(* is pulled by a loop that opens it, pumps its frames into the shared cell   *)
(* and backs off (crates/nvr-compositor/src/source.rs). The camera is         *)
(* external: it comes and goes.                                               *)
EXTENDS Integers

CONSTANTS BackoffMin, BackoffMax,     \* 2 s and 60 s in the code
          PoolBase, PoolMax,          \* 3 s and 30 s in the code
          ExpCap,                     \* cap on the exponent (16 in the code)
          MaxFails                    \* bound on the count of failed opens

ASSUME SupervisorAssumption ==
    /\ BackoffMin \in Nat \ {0} /\ BackoffMax \in Nat /\ BackoffMax >= BackoffMin
    /\ PoolBase \in Nat \ {0} /\ PoolMax \in Nat /\ PoolMax >= PoolBase
    /\ ExpCap \in Nat /\ MaxFails \in Nat \ {0}

Least(a, b) == IF a < b THEN a ELSE b

\* 1 << n.
Power(n) == LET p[i \in 0..n] == IF i = 0 THEN 1 ELSE 2 * p[i - 1] IN p[n]

\* The ceiling is reached well before the exponent's cap is.
ASSUME CeilingAssumption == PoolMax <= PoolBase * Power(ExpCap)

VARIABLES
    kind,       \* "device", "pool", or another puller is looked at
    at,         \* where the loop is
    backoff,    \* the device supervisor's delay
    fails,      \* the pool loop's failed opens in a row
    session,    \* the pipe or connection: "none", "starting", "running", "held"
                \* (it stands still), "idle" (no input), "over"
    healthy,    \* the session has lived HEALTHY_SESSION
    misses,     \* attempts in a row since a session that lasted (history)
    pause,      \* the delay the loop is sleeping (history: the last one)
    cell,       \* the latest frame: "empty", "live" or "held"
    stop,       \* the cancellation token
    up          \* the camera can be reached

supvars == <<kind, at, backoff, fails, session, healthy, misses, pause, cell, stop, up>>

\* Source::start opens the first connection itself; the other pullers start
\* with none.
SupInit(k) ==
    /\ kind = k /\ backoff = BackoffMin /\ fails = 0
    /\ healthy = FALSE /\ misses = 0 /\ pause = 0
    /\ cell = "empty" /\ stop = FALSE /\ up \in BOOLEAN
    /\ \/ /\ at = IF k \in {"device", "pool"} THEN "check" ELSE "off"
          /\ session = "none"
       \/ k = "pool" /\ up /\ at = "pump" /\ session = "running"

Missed == Least(misses + 1, MaxFails)

\* The head of either loop.
Check ==
    /\ at = "check"
    /\ at' = IF stop THEN "stopped" ELSE IF kind = "device" THEN "resolve" ELSE "open"
    /\ UNCHANGED <<kind, backoff, fails, session, healthy, misses, pause, cell, stop, up>>

(***************************************************************************)
(* The device supervisor.                                                  *)
(***************************************************************************)

\* yt-dlp, or the camera's media service, is asked for the address. A stop is
\* not looked at meanwhile, and the service is given no time limit here.
Resolve ==
    /\ at = "resolve"
    /\ \/ /\ up /\ at' = "run" /\ session' = "starting" /\ healthy' = FALSE
          /\ UNCHANGED misses
       \/ /\ ~up /\ at' = "wait" /\ misses' = Missed
          /\ UNCHANGED <<session, healthy>>
    /\ UNCHANGED <<kind, backoff, fails, pause, cell, stop, up>>

\* run_session spawns the pipe. It runs if the input opens; if it does not,
\* every output is rejected and the pipe waits for its cancellation only. Only
\* an rtsp:// address is opened with a time limit.
PipeStarts ==
    /\ session = "starting"
    /\ session' = IF up THEN "running" ELSE "idle"
    /\ UNCHANGED <<kind, at, backoff, fails, healthy, misses, pause, cell, stop, up>>

\* HEALTHY_SESSION passes, whatever the pipe does meanwhile.
SessionAges ==
    /\ at = "run" /\ ~healthy /\ healthy' = TRUE
    /\ UNCHANGED <<kind, at, backoff, fails, session, misses, pause, cell, stop, up>>

\* A read without a time limit gets no answer, or a forwarder waits at the
\* barrier for a track that is silent: neither the end of the stream nor a
\* cancellation gets through.
Hang ==
    /\ session = "running" /\ session' = "held"
    /\ UNCHANGED <<kind, at, backoff, fails, healthy, misses, pause, cell, stop, up>>

\* The answer or the track comes after all; a cancelled pipe unwinds then.
LetGo ==
    /\ session = "held" /\ session' = IF at = "cancelled" THEN "over" ELSE "running"
    /\ UNCHANGED <<kind, at, backoff, fails, healthy, misses, pause, cell, stop, up>>

\* A stop cancels the pipe, and run_session waits for it without a bound.
CancelSession ==
    /\ at = "run" /\ stop /\ session # "over" /\ at' = "cancelled"
    /\ UNCHANGED <<kind, backoff, fails, session, healthy, misses, pause, cell, stop, up>>

\* The stream ends, so that an output task ends, or the pipe was cancelled: it
\* unwinds.
PipeEnds ==
    /\ kind = "device" /\ session' = "over"
    /\ \/ session = "running" /\ ~up
       \/ session \in {"running", "idle"} /\ at = "cancelled"
    /\ UNCHANGED <<kind, at, backoff, fails, healthy, misses, pause, cell, stop, up>>

\* Mutant: the delay starts over after every session.
M_SessionOver ==
    /\ at \in {"run", "cancelled"} /\ session = "over" /\ session' = "none"
    /\ IF stop THEN at' = "stopped" /\ UNCHANGED <<backoff, misses>>
       ELSE /\ at' = "wait" /\ backoff' = BackoffMin
            /\ misses' = IF healthy THEN 1 ELSE Missed
    /\ UNCHANGED <<kind, fails, healthy, pause, cell, stop, up>>

\* Mutant: only the cancellation is waited for.
M_WaitForStop ==
    /\ at = "cancelled" /\ session = "over" /\ session' = "none" /\ at' = "stopped"
    /\ UNCHANGED <<kind, backoff, fails, healthy, misses, pause, cell, stop, up>>

\* run_session returns when the pipe's task has ended, cancelled or not. A
\* session that lasted starts the delay over.
SessionOver ==
    /\ at \in {"run", "cancelled"} /\ session = "over" /\ session' = "none"
    /\ IF stop THEN at' = "stopped" /\ UNCHANGED <<backoff, misses>>
       ELSE /\ at' = "wait"
            /\ backoff' = IF healthy THEN BackoffMin ELSE backoff
            /\ misses' = IF healthy THEN 1 ELSE Missed
    /\ UNCHANGED <<kind, fails, healthy, pause, cell, stop, up>>

\* The delay, doubled afterwards up to its ceiling; a stop ends it at once.
DeviceWait ==
    /\ kind = "device" /\ at = "wait"
    /\ pause' = backoff
    /\ IF stop THEN at' = "stopped" /\ UNCHANGED backoff
       ELSE at' = "check" /\ backoff' = Least(2 * backoff, BackoffMax)
    /\ UNCHANGED <<kind, fails, session, healthy, misses, cell, stop, up>>

(***************************************************************************)
(* The pool source loop.                                                   *)
(***************************************************************************)

\* open_connection, with a success resetting the count of failures. The open is
\* given no time limit and does not look at the token.
Open ==
    /\ at = "open"
    /\ IF up THEN /\ at' = "pump" /\ session' = "running" /\ fails' = 0 /\ misses' = 0
       ELSE /\ at' = "wait" /\ fails' = Least(fails + 1, MaxFails) /\ misses' = Missed
            /\ UNCHANGED session
    /\ UNCHANGED <<kind, backoff, healthy, pause, cell, stop, up>>

\* pump_connection: a decoded frame becomes the latest one. The cell is not
\* emptied when the connection ends.
Pump ==
    /\ at = "pump" /\ session = "running" /\ up /\ ~stop /\ cell # "live"
    /\ cell' = "live"
    /\ UNCHANGED <<kind, at, backoff, fails, session, healthy, misses, pause, stop, up>>

\* End of stream, a closed channel or a stop, whatever the reader does: the
\* tasks are stopped.
PumpEnds ==
    /\ at = "pump" /\ (stop \/ (session = "running" /\ ~up))
    /\ at' = "wait" /\ session' = "none"
    /\ cell' = IF cell = "live" THEN "held" ELSE cell
    /\ UNCHANGED <<kind, backoff, fails, healthy, misses, pause, stop, up>>

\* backoff_delay: the base after a drop or a first failure, doubled for every
\* further one, up to the ceiling.
PoolDelay(n) ==
    LET exp == Least(IF n = 0 THEN 0 ELSE n - 1, ExpCap)
    IN Least(PoolBase * Power(exp), PoolMax)

PoolWait ==
    /\ kind = "pool" /\ at = "wait"
    /\ pause' = PoolDelay(fails)
    /\ at' = IF stop THEN "stopped" ELSE "check"
    /\ UNCHANGED <<kind, backoff, fails, session, healthy, misses, cell, stop, up>>

\* The device is removed, the program dropped, or the server shut down.
Stop ==
    /\ at \notin {"off", "stopped"} /\ ~stop /\ stop' = TRUE
    /\ UNCHANGED <<kind, at, backoff, fails, session, healthy, misses, pause, cell, up>>

\* The camera goes away or comes back (external).
Flap ==
    /\ at # "stopped" /\ up' = ~up
    /\ UNCHANGED <<kind, at, backoff, fails, session, healthy, misses, pause, cell, stop>>

\* What is sure to go on, and what waits for a far end as long as it takes.
Puller ==
    \/ Check \/ PipeEnds \/ CancelSession \/ SessionOver \/ DeviceWait
    \/ Pump \/ PumpEnds \/ PoolWait

FarEnd == Resolve \/ PipeStarts \/ Open \/ Hang \/ LetGo \/ Stop \/ Flap

SupNext == Puller \/ FarEnd \/ SessionAges

(***************************************************************************)
(* Properties.                                                             *)
(***************************************************************************)

Doubled(base, n, max) == Least(base * Power(n), max)

\* Every delay is the one the attempts so far call for: the base after a
\* session that lasted, doubled for every attempt in a row that did not, never
\* above the ceiling.
DelayFollowsMisses ==
    (at \in {"check", "resolve", "open"} /\ pause > 0 /\ misses < MaxFails) =>
       pause = IF kind = "device"
               THEN Doubled(BackoffMin, misses - 1, BackoffMax)
               ELSE Doubled(PoolBase, IF misses = 0 THEN 0 ELSE misses - 1, PoolMax)

\* The loop stands in a call that nothing ends: an address being asked for, an
\* input being opened, a silent read or the barrier.
Held == at \in {"resolve", "open"} \/ session \in {"starting", "held"}

\* A camera that stays reachable is pulled again, whatever happened before,
\* unless the puller was stopped, the pipe opened while it was away and idles,
\* or the loop is held for ever.
Reconnects ==
    (<>[]up) => []((kind \in {"device", "pool"}) =>
                     <>(session \in {"running", "idle"} \/ at = "stopped" \/ []Held))

\* A stopped puller ends, and leaves no pipe or connection behind, unless it is
\* held for ever: a cancelled pipe is waited for without a bound.
StopEnds ==
    stop ~> ((at = "stopped" /\ session = "none") \/ []Held)

=============================================================================
