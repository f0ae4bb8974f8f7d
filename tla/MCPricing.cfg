SPECIFICATION PricingSpec
CONSTANTS
    Writers = {s1, s2}
    Branches = {b1}
    Company = company
    Custom = {"box"}
    Builtin = {"piece"}
    Family <- MCFamily
    Packed = {"box"}
    Conversions <- MCConversions
    MaxVersion = 2
    NoUnit = NoUnit
SYMMETRY Same
CHECK_DEADLOCK FALSE
INVARIANTS EveryCodeIsRegistered BaseIsFrozen
PROPERTIES ReplacesWhatWasSeen
