SPECIFICATION Spec
CONSTANTS
    s1 = s1 s2 = s2 b1 = b1 b2 = b2 i1 = i1 i2 = i2 q1 = q1 r1 = r1 h1 = h1
    Slots = {s1, s2}
    Batches = {b1, b2}
    LinesOf <- MCLinesOf
    GrossOf <- MCGrossOf
    MaxVersion = 3
    Invoices = {i1, i2}
    TotalOf <- MCTotalOf
    Payments = {q1, r1, h1}
    AmountOf <- MCAmountOf
    MethodOf <- MCMethodOf
    MaxAdvances = 2
    IdOf <- MCIdOf
    AgeOf <- MCAgeOf
    Inherited <- MCInherited
    Account = Account
    None = None
SYMMETRY SameSlots
CHECK_DEADLOCK FALSE
INVARIANTS NeverOversettled PromotionIsExact 
PROPERTIES FinalizedAsReviewed
