CONSTANTS
    NoFd = NoFd
    NodeConfigs <- MCNodeConfigs
    RenderNum = 10
    MaxInits = 2
SPECIFICATION Spec
INVARIANT NoNodeFdLeak
\* init() is called a bounded number of times; after the last call
\* returns nothing is left to do.
CHECK_DEADLOCK FALSE
