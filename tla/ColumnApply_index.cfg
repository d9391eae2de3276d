\* Callbacks that look keys up before there is an index.
CONSTANTS
    Workers = {w1, w2}
    Main = main
    TaskCounts = {2, 3}
    MaxCalls = 2
    Bounds <- OneOrTwoCalls
    Keys <- TwoKeys
    DefaultKey <- SecondKey
    Setups <- SmallFrames
    ColdLookups = TRUE
    w1 = w1
    w2 = w2
    main = main
SPECIFICATION Spec
INVARIANTS
    LookupsFindKeys
