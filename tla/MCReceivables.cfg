SPECIFICATION Spec
CONSTANTS
    i1 = i1  i2 = i2  o1 = o1  c1 = c1
    p1 = p1  p2 = p2  k1 = k1
    Receivables = {i1, i2, c1, o1}
    KindOf <- MCKindOf
    AmountOf <- MCAmountOf
    Payments = {p1, p2}
    MethodOf <- MCMethodOf
    Amounts = {1, 2}
    MaxAdvances = 2
    RefundKeys = {k1}
    None = None
INVARIANTS BooksAgree MoneyIsTraced
PROPERTIES OldestFirst ImplementsLedger
CHECK_DEADLOCK FALSE
