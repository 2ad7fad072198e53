SPECIFICATION Spec
CONSTANTS
    NoFrame = NoFrame
    EndOfTrack = EndOfTrack
    TrackRoom = 4
    ChunkFrames = 3
    MaxChunks = 4
    MaxFlushes = 1
INVARIANTS FramesInOrder RoomToFinish EndComesFirst
PROPERTIES BroadcastsEnd
CHECK_DEADLOCK FALSE
