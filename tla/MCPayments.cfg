SPECIFICATION FairSpec
CONSTANTS
    k1 = k1  k2 = k2
    c1 = c1  c2 = c2  c3 = c3
    Keys = {k1, k2}
    Callers = {c1, c2, c3}
    KeyOf <- MCKeyOf
    AmountOf <- MCAmountOf
    Total = 1
    Advance = 1
    InitiationStates = {"REQUIRES_ACTION"}
    ProviderStates = {"REQUIRES_ACTION", "CAPTURED", "FAILED"}
    Strays <- MCStrays
    Processors = 2
    None = None
    MaxRuns = 2
    MaxFaults = 1
INVARIANTS OnePaymentPerCapture HeldWhileChargeable NeverPromisedTwice RefusalHasACause
PROPERTY CapturesSurface
CHECK_DEADLOCK FALSE
