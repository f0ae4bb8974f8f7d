------------------------------- MODULE Totals -------------------------------
(***************************************************************************)
(* The arithmetic of a sale: the price of a line, the discounts of a line  *)
(* and of the document, their shares, the tax of the lines and of the      *)
(* document, and the totals (packages/money, and tax-arithmetic,           *)
(* document-discount-allocation, canonical-totals, commercial-snapshot and *)
(* the line rules of order.repository under modules/orders).               *)
(*                                                                         *)
(* Amounts are integers of minor units.  The code's bases of 10 000 (basis *)
(* points of a rate, the four decimals of a quantity) are the constants    *)
(* Whole and Unit, so that TLC can run small instances.                    *)
(***************************************************************************)
EXTENDS Integers, Sequences, FiniteSets, Functions

CONSTANTS Whole,        \* 100 per cent, in the unit of the rates
          Unit,         \* a quantity of one, in the unit of the quantities
          NoRate,       \* no tax rate was resolved for the line
          NoPrice,      \* no price is configured for the item
          Items,        \* what may be sold
          Offer         \* item -> what catalogue, price lists and tax policy say of it

Modes == {"DOWN", "UP", "HALF_DOWN", "HALF_UP", "HALF_EVEN"}

ASSUME TotalsAssumption ==
    /\ Whole \in Nat \ {0} /\ Unit \in Nat \ {0}
    /\ NoRate \notin Nat /\ NoPrice \notin Nat
    /\ Offer \in [Items -> [active : BOOLEAN, based : BOOLEAN, step : Nat \ {0},
                            price : Nat \cup {NoPrice}, rate : (0..Whole) \cup {NoRate}]]

Total(f) == SumFunction(f)

-----------------------------------------------------------------------------
(* Exact division, and the one place where it is rounded.                  *)

(* Away from zero when the mode says so of what is left. *)
DivRound(n, d, mode) ==
    LET size == IF n < 0 THEN -n ELSE n
        q    == size \div d
        rest == size % d
        up   == CASE mode = "DOWN"      -> FALSE
                  [] mode = "UP"        -> rest > 0
                  [] mode = "HALF_DOWN" -> 2 * rest > d
                  [] mode = "HALF_UP"   -> 2 * rest >= d
                  [] mode = "HALF_EVEN" -> 2 * rest > d \/ (2 * rest = d /\ q % 2 = 1)
        near == IF up THEN q + 1 ELSE q
    IN  IF n < 0 THEN -near ELSE near

MulRatio(amount, num, den) == DivRound(amount * num, den, "HALF_UP")

Floor(x) == x.num \div x.den
Rest(x)  == x.num % x.den

(* i comes before j: the larger fraction left over, compared without a     *)
(* division, and the smaller position between equals.                      *)
Before(x, i, j) == LET a == Rest(x[i]) * x[j].den
                       b == Rest(x[j]) * x[i].den
                   IN  a > b \/ (a = b /\ i < j)

(* Defect: what is left over goes to the last ones. *)
ResidualToTheLast(x, whole) ==
    LET left == whole - Total([i \in DOMAIN x |-> Floor(x[i])])
    IN  [i \in DOMAIN x |->
            Floor(x[i]) + (IF Cardinality({j \in DOMAIN x : j > i}) < left THEN 1 ELSE 0)]

(* The integers that add up to `whole`: everyone's floor, and one unit     *)
(* more for the first ones in that order.                                  *)
LargestRemainders(x, whole) ==
    LET left == whole - Total([i \in DOMAIN x |-> Floor(x[i])])
    IN  [i \in DOMAIN x |->
            Floor(x[i]) + (IF Cardinality({j \in DOMAIN x : Before(x, j, i)}) < left
                           THEN 1 ELSE 0)]

Allocate(amount, weights) ==
    LET total == Total(weights)
    IN  LargestRemainders([i \in DOMAIN weights |-> [num |-> amount * weights[i],
                                                     den |-> total]], amount)

-----------------------------------------------------------------------------
(* Discounts.                                                              *)

AllocateDocumentDiscount(weights, discount) ==
    IF discount = 0 THEN [i \in DOMAIN weights |-> 0] ELSE Allocate(discount, weights)

Gross(line)             == MulRatio(line.price, line.quantity, Unit)
AfterLineDiscount(line) == Gross(line) - line.discount

DiscountAllowed(asked, gross) == asked.mode = "AMOUNT" => asked.value <= gross
ResolveDiscount(asked, gross) ==
    CASE asked.mode = "NONE"        -> 0
      [] asked.mode = "AMOUNT"      -> asked.value
      [] asked.mode = "PERCENT_BPS" -> MulRatio(gross, asked.value, Whole)

-----------------------------------------------------------------------------
(* Tax.                                                                    *)

ExactLineTax(amount, rate, mode) ==
    [num |-> amount * rate,
     den |-> IF mode = "TAX_EXCLUSIVE" THEN Whole ELSE Whole + rate]

RoundExact(x, mode) == DivRound(x.num, x.den, mode)

ComputeLineTax(amount, rate, priceMode, roundingMode) ==
    RoundExact(ExactLineTax(amount, rate, priceMode), roundingMode)

InclusiveNet(amount, tax) == amount - tax

(* The sum of fractions, as one fraction. *)
ExactSum(x) == FoldFunction(LAMBDA f, s : [num |-> s.num * f.den + f.num * s.den,
                                           den |-> s.den * f.den],
                            [num |-> 0, den |-> 1], x)

(* The document's tax is rounded once and handed out to the lines. *)
ReconcileDocumentTax(x, mode) ==
    LargestRemainders(x, RoundExact(ExactSum(x), mode))

LineRounding(x, mode) == [i \in DOMAIN x |-> RoundExact(x[i], mode)]

-----------------------------------------------------------------------------
(* An order: what is asked for, what is stored, and its totals.            *)

(* What the schemas of a draft order let through, and a tax policy.        *)
Discounts   == {d \in [mode : {"NONE", "AMOUNT", "PERCENT_BPS"}, value : Nat] :
                   d.mode = "PERCENT_BPS" => d.value <= Whole}
TaxPolicies == [price : {"TAX_EXCLUSIVE", "TAX_INCLUSIVE"}, scope : {"LINE", "DOCUMENT"},
                rounding : Modes]
Requests    == [lines : Seq([item : Items, quantity : Nat, discount : Discounts]),
                discount : Discounts, policy : TaxPolicies]

(* resolveLines refuses the first line that cannot be sold; a quantity     *)
(* must be positive and a whole number of the unit's steps.                *)
LineAllowed(asked) ==
    LET offer == Offer[asked.item]
    IN  /\ asked.item \in Items /\ offer.active /\ offer.based
        /\ asked.quantity > 0 /\ asked.quantity % offer.step = 0
        /\ offer.price # NoPrice
        /\ DiscountAllowed(asked.discount, MulRatio(offer.price, asked.quantity, Unit))

(* Price and rate are copied into the line. *)
ResolveLine(asked) ==
    LET offer == Offer[asked.item]
    IN  [item |-> asked.item, quantity |-> asked.quantity, price |-> offer.price,
         discount |-> ResolveDiscount(asked.discount, MulRatio(offer.price, asked.quantity, Unit)),
         rate |-> offer.rate]

DraftAllowed(asked) ==
    /\ \A i \in DOMAIN asked.lines : LineAllowed(asked.lines[i])
    /\ DiscountAllowed(asked.discount,
                       Total([i \in DOMAIN asked.lines |->
                                 AfterLineDiscount(ResolveLine(asked.lines[i]))]))

(* The fingerprint is a digest of the order as stored, and of its policy   *)
(* since the second version; a digest is modelled by what it is taken of.  *)
Fingerprint(order, version) ==
    [content |-> <<order.branch, order.customer, order.lines, order.discount>>,
     policy  |-> IF version = 1 THEN <<>> ELSE order.policy]

Saved(branch, customer, asked) ==
    LET lines == [i \in DOMAIN asked.lines |-> ResolveLine(asked.lines[i])]
    IN  [branch |-> branch, customer |-> customer, lines |-> lines, policy |-> asked.policy,
         discount |-> ResolveDiscount(asked.discount,
                          Total([i \in DOMAIN lines |-> AfterLineDiscount(lines[i])]))]

Weights(order) == [i \in DOMAIN order.lines |-> AfterLineDiscount(order.lines[i])]
Shares(order)  == AllocateDocumentDiscount(Weights(order), order.discount)

Rated(order) == {i \in DOMAIN order.lines : order.lines[i].rate # NoRate}

ExactTaxes(order) ==
    [i \in Rated(order) |-> ExactLineTax(Weights(order)[i] - Shares(order)[i],
                                         order.lines[i].rate, order.policy.price)]

Taxes(order) ==
    LET exact == ExactTaxes(order)
        rated == IF order.policy.scope = "LINE"
                 THEN LineRounding(exact, order.policy.rounding)
                 ELSE ReconcileDocumentTax(exact, order.policy.rounding)
    IN  [i \in DOMAIN order.lines |-> IF i \in DOMAIN exact THEN rated[i] ELSE 0]

(* Tax that the prices contain is not added a second time. *)
TotalOf(subtotal, discount, tax, mode) ==
    IF mode = "TAX_EXCLUSIVE" THEN subtotal - discount + tax ELSE subtotal - discount

ComputeCanonicalTotals(order) ==
    LET taxes    == Taxes(order)
        subtotal == Total(Weights(order))
    IN  [taxes |-> taxes, subtotal |-> subtotal, discount |-> order.discount,
         tax |-> Total(taxes),
         total |-> TotalOf(subtotal, order.discount, Total(taxes), order.policy.price)]

(* What the screen shows of them before the sale. *)
Preview(order) ==
    LET t == ComputeCanonicalTotals(order)
    IN  [subtotal |-> t.subtotal, discount |-> t.discount, tax |-> t.tax, total |-> t.total]

(* What issuance checks of the totals it is given. *)
TotalsAccepted(order, given) ==
    /\ DOMAIN given.taxes = DOMAIN order.lines
    /\ given.discount = order.discount
    /\ given.subtotal = Total(Weights(order))
    /\ given.tax = Total(given.taxes)
    /\ given.total = TotalOf(given.subtotal, given.discount, given.tax, order.policy.price)

-----------------------------------------------------------------------------
(* The documents that follow a sale.                                       *)

(* Defect: the shares of the document's discount are not replayed. *)
UndiscountedLines(order, taxes) ==
    [i \in DOMAIN order.lines |->
        [net |-> Weights(order)[i], tax |-> taxes[i], total |-> Weights(order)[i] + taxes[i]]]

(* A credit note repeats the invoice's frozen lines and taxes, and replays *)
(* the shares of its discount.                                             *)
CreditNoteLines(order, taxes) ==
    LET shares == Shares(order)
    IN  [i \in DOMAIN order.lines |->
            LET net == Weights(order)[i] - shares[i]
            IN  [net |-> net, tax |-> taxes[i],
                 total |-> IF order.policy.price = "TAX_EXCLUSIVE" THEN net + taxes[i] ELSE net]]

CreditNoteTotals(order, taxes) ==
    LET lines == CreditNoteLines(order, taxes)
    IN  [subtotal |-> Total([i \in DOMAIN lines |-> lines[i].net]),
         tax |-> Total([i \in DOMAIN lines |-> lines[i].tax]),
         total |-> Total([i \in DOMAIN lines |-> lines[i].total])]

(* The fee of a cancellation: the amount asked for is the net one or the   *)
(* total one, as the policy says.                                          *)
ChargeTotals(asked, rate, policy) ==
    LET tax == IF rate = NoRate THEN 0
               ELSE ComputeLineTax(asked, rate, policy.price, policy.rounding)
    IN  IF policy.price = "TAX_EXCLUSIVE"
        THEN [net |-> asked, tax |-> tax, total |-> asked + tax]
        ELSE [net |-> InclusiveNet(asked, tax), tax |-> tax, total |-> asked]
=============================================================================
