SPECIFICATION Spec
CONSTANTS
    MaxFrames = 2
    PipeSize = 1
    FrameRoom = 1
    ChunkRoom = 1
    Overrun = 1
    Slow = TRUE
    Mishaps = TRUE
    Frame = 2
    Gap = 3
    Horizon = 6
    MaxChunk = 2
    Room = 2
    Absent = Absent
INVARIANTS
    TypeOK
    RecordingSettled
    PipelineInOrder
    MixedOnce
CHECK_DEADLOCK FALSE
