\* Bodies of up to six tokens over two basic types, nesting two deep.
CONSTANTS
    Basics = {"y", "s"}
    MaxLen = 6
    MaxDepth = 2
SPECIFICATION CSpec
INVARIANT CTypeOK ReadInOrder CompleteRead
PROPERTY CodecMeetsContract
CHECK_DEADLOCK FALSE
