SPECIFICATION Spec
CONSTANTS
    Slots = {s1, s2}
    Groups = {g1, g2}
    Values = {x, y}
    Variants = {v1, v2}
    Codes = {c1, c2}
    Kinds = {"SKU", "BARCODE"}
    None = None
SYMMETRY Same
CHECK_DEADLOCK FALSE
INVARIANTS VariantsAreComplete OnSaleIsReady
