\* Integers from -4 to 3 and words modulo 16; files of up to two sections.
CONSTANTS
    IntMax = 3
    WordRange = 16
    Numerals <- SmallNumerals
    ConfigFiles <- SmallConfigs
SPECIFICATION Spec
INVARIANTS
    LoadedAsWritten
    PagesInDomain
