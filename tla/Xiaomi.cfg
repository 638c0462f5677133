CONSTANTS
    Modulus = 8
    PushSize = 1
    QueueCap = 1
    Repeats = 2
    Window = 3
    NetCap = 1
    MaxRedirects = 2
    MaxChain = 3
    Answers <- MCAnswers
    Records <- MCRecords
    Splits <- MCSplits
    Yes <- MCYes
    No <- MCNo
    Video <- MCVideo
SPECIFICATION XiaomiSpec
INVARIANT AckedIsKept
INVARIANT SentIsReceived
INVARIANT LoginResumes
PROPERTY FramesInOrder
PROPERTY CancelNoticed
CHECK_DEADLOCK FALSE
