CONSTANTS
    BufSize <- MCBufSize
    SizeWord <- MCSizeWord
    RetGarbage <- MCRetInBounds
    TimeoutKinds = {"past", "invalid"}
    RepeatValues <- MCRepeatValues
SPECIFICATION FairSpec
PROPERTY MainReturns
