------------------------------ MODULE MCReports ------------------------------
(* Small histories: two branches, two customers, two days, one item that is *)
(* taxed and one that is not, and every draft of up to three lines.         *)
EXTENDS Reports, TLC

CONSTANTS b1, b2

MCOffer == [tea  |-> [active |-> TRUE, based |-> TRUE, step |-> 1, price |-> 3, rate |-> 5],
            rose |-> [active |-> TRUE, based |-> TRUE, step |-> 2, price |-> 4, rate |-> 3],
            card |-> [active |-> TRUE, based |-> TRUE, step |-> 2, price |-> 1, rate |-> NoRate],
            old  |-> [active |-> FALSE, based |-> TRUE, step |-> 1, price |-> 3, rate |-> 5]]

None_   == [mode |-> "NONE", value |-> 0]
Bps(x)  == [mode |-> "PERCENT_BPS", value |-> x]
Less(x) == [mode |-> "AMOUNT", value |-> x]

Line(item, quantity, discount) == [item |-> item, quantity |-> quantity, discount |-> discount]
Lines == {Line("tea", 2, None_), Line("tea", 3, Bps(3)), Line("rose", 2, None_),
          Line("rose", 4, Less(1)), Line("card", 2, None_), Line("old", 2, None_)}

MCPolicy == [price |-> "TAX_EXCLUSIVE", scope |-> "LINE", rounding |-> "HALF_UP"]

Draft(lines, discount, policy) == [lines |-> lines, discount |-> discount, policy |-> policy]

MCSoldDrafts ==
    {Draft(<<Line("tea", 2, None_), Line("rose", 2, None_), Line("card", 2, None_)>>, Less(2),
           [price |-> "TAX_EXCLUSIVE", scope |-> "DOCUMENT", rounding |-> "HALF_UP"])}

MCDrafts ==
    MCSoldDrafts
    \cup {Draft(lines, d, p) : lines \in UNION {[1..n -> Lines] : n \in 1..2},
                               d \in {None_, Less(1), Less(4), Bps(3)}, p \in TaxPolicies}
    \cup {Draft(lines, d, p) : lines \in [1..3 -> {Line("tea", 2, None_), Line("tea", 3, Bps(3)),
                                                   Line("rose", 2, None_)}],
                               d \in {Less(1), Less(2), Bps(3)}, p \in TaxPolicies}
    \cup {Draft(<<Line("tea", 2, Bps(10))>>, d, p) : d \in {None_, Bps(3)}, p \in TaxPolicies}

Symmetry == Permutations({b1, b2})

MCMaxRows == [invoices |-> 1, notes |-> 1, charges |-> 1, receivables |-> 2, payments |-> 2,
              allocations |-> 2, coverings |-> 1, advances |-> 2, draws |-> 1, refunds |-> 1,
              attempts |-> 1, settlements |-> 1, journals |-> 6]
=============================================================================
