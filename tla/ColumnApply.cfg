\* Two workers, calls with as many tasks as workers and with more.
CONSTANTS
    Workers = {w1, w2}
    Main = main
    TaskCounts = {2, 3}
    MaxCalls = 2
    Bounds <- OneOrTwoCalls
    Keys <- TwoKeys
    DefaultKey <- SecondKey
    Setups <- SmallFrames
    ColdLookups = FALSE
    w1 = w1
    w2 = w2
    main = main
SPECIFICATION Spec
INVARIANTS
    Consistent
    TasksRunOnce
    LookupsFindKeys
PROPERTIES
    IsKeyedTable
    CallsComeBack
