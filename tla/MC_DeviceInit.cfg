CONSTANTS
    NoFd = NoFd
    NodeConfigs <- MCNodeConfigs
    RenderNum = 10
    MaxInits = 2
SPECIFICATION Spec
INVARIANT TypeOK ResultMatchesDriver
\* init() is called a bounded number of times; after the last call
\* returns, or once the driver is destroyed, nothing is left to do.
CHECK_DEADLOCK FALSE
