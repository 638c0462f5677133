CONSTANTS
    BackoffMin = 1
    BackoffMax = 6
    PoolBase = 1
    PoolMax = 6
    ExpCap = 3
    MaxFails = 6
    Script <- MCScript
    SegTime = 2
    InboxCap = 2
    TxCap = 1
    MaxRetries = 1
    MaxClock = 2
    Inputs <- MCInputs
    FramesHeld = 2
    SwitchCalls = {"w1", "w2"}
    MaxSessions = 2
    TapCalls = {"s1", "s2"}
    MaxPipes = 2
SPECIFICATION FeedsSpec
INVARIANT DelayFollowsMisses
INVARIANT RecordingWhole
INVARIANT OnAirKeyed
INVARIANT TapsOwned
PROPERTY Reconnects
PROPERTY EndsWhenTold
CHECK_DEADLOCK FALSE
