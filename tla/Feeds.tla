------------------------------- MODULE Feeds -------------------------------
(* What pulls a camera and keeps pulling it: a device supervisor, a source    *)
(* loop of a compositor, a recorder, the program of a switcher, or a tap of   *)
(* the speech recognition or the object detection on its pipe. They share     *)
(* nothing but the camera, so a behaviour looks at one of them.               *)
EXTENDS Supervisor, Recorder, Switcher, Taps

CONSTANT MaxSessions     \* recording sessions that open (bound)

feedvars == <<supvars, recvars, swvars, tapvars>>

FeedsInit ==
    \E who \in {"device", "pool", "recorder", "switcher", "asr", "detect"} :
       /\ SupInit(who) /\ RecInit(who = "recorder") /\ SwInit(who = "switcher")
       /\ TapsInit(who)

FeedsNext ==
    \/ SupNext /\ UNCHANGED <<recvars, swvars, tapvars>>
    \/ RecNext(MaxSessions) /\ UNCHANGED <<supvars, swvars, tapvars>>
    \/ SwNext /\ UNCHANGED <<supvars, recvars, tapvars>>
    \/ TapsNext /\ UNCHANGED <<supvars, recvars, swvars>>

Pulls   == Puller /\ UNCHANGED <<recvars, swvars, tapvars>>
Records == RecorderStep(MaxSessions) /\ UNCHANGED <<supvars, swvars, tapvars>>
Hears   == Hear /\ UNCHANGED <<supvars, swvars, tapvars>>
Encodes == ProgramStep /\ UNCHANGED <<supvars, recvars, tapvars>>
Drops   == DropSources /\ UNCHANGED <<supvars, recvars, tapvars>>

\* The tasks run, and the consumer of the recorder's announcements listens;
\* nothing is assumed of the cameras, nor of an open, a read or a write that
\* has no time limit.
FeedsSpec ==
    /\ FeedsInit /\ [][FeedsNext]_feedvars
    /\ WF_feedvars(Pulls) /\ WF_feedvars(Records) /\ WF_feedvars(Hears)
    /\ WF_feedvars(Encodes) /\ WF_feedvars(Drops)

\* Whoever pulls ends when it is told to: a stopped supervisor or source loop
\* leaves no session behind, a recorder returns though its announcements have
\* to wait for room, and a removed program stops publishing; but for a puller
\* or a program that stands for ever in a call without a time limit.
EndsWhenTold == StopEnds /\ RecorderStops /\ RemovedEnds

=============================================================================
