SPECIFICATION FairSpec
CONSTANTS
    Sizes <- MCSizes
    SndWnd = 2
    RcvWndOpt = 1
    WndRcv = 3
    FastResend = 2
    PacketSegs = 2
    SnMod = 16
    StartSns = {14}
    MaxFlight = 2
    MaxFaults = 1
INVARIANTS
    SegmentsSound
PROPERTIES
    StreamSpec
    AllArrives
\* The last message has been read.
CHECK_DEADLOCK FALSE
