\* Every await may be rejected, and either side may end at any time.  Chunks
\* of one or three samples, frames of four and of two: nothing aligns.
SPECIFICATION Spec
CONSTANTS
    ambience = ambience
    speech1 = speech1
    speech2 = speech2
    NoTrack = NoTrack
    Tracks <- MCTracks
    MicTracks <- MCMicTracks
    Rejected = {"lookup", "sids", "status", "session", "record", "connect",
                "publish", "end"}
    Attempts = 3
    Lag = 2
    ToAgent <- MCToAgent
    FromAgent <- MCFromAgent
    FrameSamples = 4
    TwilioFrame = 2
    ChunkSizes = {1, 3}
    PreconnectLimit = 3
    FlushKeep = 2
    Backlog = 4
    MaxHeard = 9
    MaxSpoken = 7
INVARIANTS
    MediaTypeOK
    ReleasedUnlessOvertaken
    ReadyMeansPath
    SpeechWins
    SessionsBounded
    HeardInOrder
    OnlyThePastIsLost
    BacklogDrains
    HistoryKept
    SpokenInOrder
    CodecFaithful
PROPERTIES
    EitherSideEndsBoth
    OpeningKept
CHECK_DEADLOCK FALSE
