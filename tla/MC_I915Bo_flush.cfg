CONSTANTS
    Sizes <- MCSizes
SPECIFICATION Spec
INVARIANT FlushPublishesWrites
