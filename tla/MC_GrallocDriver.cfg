CONSTANTS
    t1 = t1  t2 = t2
    h1 = h1  h2 = h2
    o1 = o1  o2 = o2  o3 = o3
    g1 = g1  g2 = g2
    NoHnd = NoHnd
    Threads <- MCThreads
    Hnds <- MCHnds
    Objs <- MCObjs
    GemIds <- MCGemIds
    Foreign <- MCForeign
    MaxCount = 2
    MaxFds = 2

SPECIFICATION Spec

INVARIANT TypeOK
 
INVARIANT BufferIdentity
PROPERTY RefinesBufferRefs
INVARIANT LockCountMatchesHolders
