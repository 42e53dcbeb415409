CONSTANTS
    BufSize <- MCBufSize
    SizeWord <- MCSizeWord
    RetGarbage <- MCRetGarbage
    TimeoutKinds = {"past", "invalid", "never"}
    RepeatValues <- MCRepeatValues
SPECIFICATION Spec
INVARIANT FittingFragmentsNeverOverrun
