\* Bodies of up to six tokens over two basic types, nesting two deep.
CONSTANTS
    Basics = {"y", "s"}
    MaxLen = 4
    MaxDepth = 2
SPECIFICATION CSpec
INVARIANT ContainerPopChecksType
CHECK_DEADLOCK FALSE
