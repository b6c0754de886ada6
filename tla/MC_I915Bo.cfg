CONSTANTS
    Sizes <- MCSizes
SPECIFICATION Spec
INVARIANT TypeOK NoGemLeak ClflushCoversRange
