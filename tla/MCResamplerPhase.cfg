\* Two samples at 8 kHz, resampled to 24 kHz, are enough.
SPECIFICATION Spec
CONSTANTS
    ambience = ambience
    speech1 = speech1
    speech2 = speech2
    NoTrack = NoTrack
    Tracks <- MCTracks
    MicTracks <- MCMicTracks
    Rejected = {}
    Attempts = 3
    Lag = 2
    ToAgent <- MCToAgent
    FromAgent <- MCFromAgent
    FrameSamples = 4
    TwilioFrame = 2
    ChunkSizes = {1, 3}
    PreconnectLimit = 3
    FlushKeep = 2
    Backlog = 4
    MaxHeard = 3
    MaxSpoken = 0
INVARIANTS
    FiltersZeroStuffed
CHECK_DEADLOCK FALSE
