CONSTANTS
    NoFd = NoFd
    NodeConfigs <- MCElevenNodes
    RenderNum = 10
    MaxInits = 2
SPECIFICATION Spec
INVARIANT NodeTableInBounds
\* init() is called a bounded number of times; after the last call
\* returns nothing is left to do.
CHECK_DEADLOCK FALSE
