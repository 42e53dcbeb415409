CONSTANTS
    MAXCHANNELS <- MCMaxChannels
    Frames <- WellFormed
SPECIFICATION Spec
INVARIANT IndicesInBounds
