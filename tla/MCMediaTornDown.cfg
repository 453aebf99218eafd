\* Nothing is rejected: hanging up while the set-up waits is enough.
SPECIFICATION MediaSpec
CONSTANTS
    ambience = ambience
    speech1 = speech1
    speech2 = speech2
    NoTrack = NoTrack
    Tracks <- MCTracks
    MicTracks <- MCMicTracks
    Rejected = {}
    Attempts = 3
INVARIANTS
    BothSidesTornDown
CHECK_DEADLOCK FALSE
