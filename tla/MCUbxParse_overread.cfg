CONSTANTS
    MAXCHANNELS <- MCMaxChannels
    Frames <- WellFormed
SPECIFICATION Spec
INVARIANT ReadsWithinPayload
