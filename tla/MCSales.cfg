SPECIFICATION Spec
CONSTANTS
    Slots = {s1, s2}
    Orders = {o1, o2}
    Customers = {c1}
    Totals = {2}
    Terms <- MCTerms
    FirstTerms <- MCFirstTerms
    Charge = 1
    MaxVersion = 3
    MaxTerms = 2
    Days = 2
    Closing = {1}
    None = None
SYMMETRY Same
CHECK_DEADLOCK FALSE
INVARIANTS Gapless BooksAgree
PROPERTIES CreditIsAuthorized ActsOnWhatWasSeen ClosedPeriodIsFrozen
