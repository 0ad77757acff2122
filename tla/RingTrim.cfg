CONSTANTS
    MinOnSec = 1
    MaxOnSec = 2
    MinOffSec = 2
    MaxOffSec = 3
    MaxBufSec = 7
    DefaultDur = 1
    MaxDur = 2
    Steps = {0, 1, 2}
    Answers = {0, 4}
    MaxFrames = 6
SPECIFICATION Spec
INVARIANTS CyclesTrimmed AnsweredAudioKept BufferBounded
PROPERTY ImplementsTrimmedStream
CHECK_DEADLOCK FALSE
