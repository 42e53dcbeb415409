CONSTANTS
    BufSize <- MCBufSize
    SizeWord <- MCSizeWord
    RetGarbage <- MCRetInBounds
    TimeoutKinds = {"past", "invalid", "never"}
    RepeatValues <- MCRepeatValues
SPECIFICATION FairSpec
PROPERTY WaitEnds
