CONSTANTS
    W = 4
    PTs = {0, 18, 96}
    Codecs <- MCCodecs
    NoCodec = NoCodec
    MaxGap = 2
    FrameBytes = 2
    FrameTicks = 2
    Starts = {14}
    Jumps <- MCJumps
    Lens = {0, 1, 2}
    MaxPackets = 4
SPECIFICATION Spec
INVARIANTS NotAccelerated InRealTime SilenceBounded
CHECK_DEADLOCK FALSE
