SPECIFICATION Spec
CONSTANTS
    t1 = t1
    t2 = t2
    Thread <- MCThread
    Name <- MCName
    Length <- MCLength
    Keywords <- MCKeywords
    Suffix <- MCSuffix
    Push <- MCPush
    PowersOfTwo <- MCPowersOfTwo
INVARIANTS TokensUnique IdentsStable SlicesLive SlicesDisjoint
