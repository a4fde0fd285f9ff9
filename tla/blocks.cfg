SPECIFICATION FairSpec
INVARIANT KeepsPromise
PROPERTY RunEnds
