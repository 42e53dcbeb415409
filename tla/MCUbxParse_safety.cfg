CONSTANTS
    MAXCHANNELS <- MCMaxChannels
    Frames <- MCFrames
SPECIFICATION Spec
INVARIANT SatCountWithinCapacity
PROPERTY RejectLeavesSlots
