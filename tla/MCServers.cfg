CONSTANTS
    c1 = c1
    c2 = c2
    Callers = {c1, c2}
    MaxCmds = 1
    MaxDrops = 1
    InFrames <- Frames
    OutMessages <- Replies
    MaxFrames = 2
    MaxPushes = 1
    Asks <- HttpAsks
    HttpBuffer = 6
    MaxBody = 3
    MaxRequests = 3
    Messages <- RockMessages
    NodeSize = 3
    RockBuffer = 4
    MinGzip = 6
    MaxLength = 5
    MaxMessages = 3
    Handled = {"a"}
    Unhandled = {"b"}
    ThreadNum = 2
    MaxPackets = 2
    Addrs = {"a"}
    MaxBinds = 2
    MaxStarts = 2
    MaxClients = 1
SPECIFICATION Spec
INVARIANTS
    AnswersOwn
    FramesWhole
    RequestsKept
    MessagesKept
    ListenersSound
PROPERTIES
    EverythingEnds
\* Sessions and servers end, and the bounds are reached.
CHECK_DEADLOCK FALSE
