------------------------------ MODULE Catalog ------------------------------
(***************************************************************************)
(* A product with its option groups, variants and scannable codes          *)
(* (apps/api/src/modules/catalog: product, option-group, variant and       *)
(* identifier repositories).                                               *)
(*                                                                         *)
(* A product is fulfilled from stock, and then simple (one default         *)
(* variant) or optioned (a variant per combination of one value of every   *)
(* group), or it is custom.  No foreign key says that a combination is     *)
(* complete, that an active variant has its base unit or that a printed    *)
(* code stays.  Those rest on row locks and on what may no longer change.  *)
(*                                                                         *)
(* An operation that reads only rows it has locked is one step.  One that  *)
(* relies on rows it has not locked reads them in one step and writes in   *)
(* another, where the database checks its indexes and foreign keys.        *)
(***************************************************************************)
CONSTANTS
    Slots,      \* operations in flight
    Groups,     \* option groups the product may have
    Values,     \* values of a group
    Variants,   \* identities of variants
    Codes,      \* values of scannable codes
    Kinds,      \* code types: SKU, BARCODE
    None

Strategies == {"STOCKED", "CUSTOM"}
Combos     == UNION {[D -> Values] : D \in SUBSET Groups}

\* Rows of the tables.
Statuses    == {"DRAFT", "ACTIVE", "ARCHIVED"}
ProductRows == [status : Statuses, strategy : Strategies]
VariantRows == [status : Statuses, default : BOOLEAN, combo : Combos, base : BOOLEAN]
CodeRows    == [variant : Variants, kind : Kinds, active : BOOLEAN]

ASSUME CatalogAssumption ==
    /\ Kinds \subseteq {"SKU", "BARCODE"}
    /\ None \notin Variants \cup Values /\ \A some \in SUBSET Values : some # None
    /\ None \notin ProductRows /\ None \notin VariantRows /\ None \notin CodeRows

VARIABLES
    product,   \* status and strategy, or None
    values,    \* of each group of the product its values; None for a group it has not
    variant,   \* status, default or not, combination, base unit set or not; or None
    code,      \* variant, type, ACTIVE or not; or None
    tx         \* what each slot is about to write

vars == <<product, values, variant, code, tx>>

Present == {g \in Groups : values[g] # None}
Empty   == [g \in {} |-> None]

-----------------------------------------------------------------------------
(* What the operations look at.                                            *)

Exists(v)   == variant[v] # None
Live(v)     == Exists(v) /\ variant[v].status # "ARCHIVED"
Default(v)  == Exists(v) /\ variant[v].default
Explicit(v) == Exists(v) /\ ~variant[v].default
Is(status)  == product # None /\ product.status = status
CodesOf(v)  == {c \in Codes : code[c] # None /\ code[c].variant = v}

\* (Mutant: archived variants are not counted.)
HasLiveExplicit == \E v \in Variants : Explicit(v) /\ Live(v)

\* Archived variants keep the option groups as they are, too.
HasExplicit == \E v \in Variants : Explicit(v)

\* resolveVariantCombination: exactly one value of each group.
Complete(combo) == Present # {} /\ DOMAIN combo = Present /\ \A g \in Present : combo[g] \in values[g]

\* No other variant that is not archived has the combination.
SignatureFree(combo, self) ==
    \A v \in Variants \ {self} : Live(v) => variant[v].combo # combo

\* The database's indexes on the combination and on the default variant (whose combination is empty).
IndexAdmits(combo, self) == SignatureFree(combo, self)

NeedsBase == product.strategy = "STOCKED"

-----------------------------------------------------------------------------
(* Locks of the operations in flight: an edit of a combination has locked  *)
(* its variant and the product, a new variant the product, an activation   *)
(* its variant.                                                            *)

Doing(s, op)   == tx[s] # None /\ tx[s].op = op
ProductFree    == \A s \in Slots : ~Doing(s, "create") /\ ~Doing(s, "edit")
VariantFree(v) == \A s \in Slots : ~(tx[s] # None /\ tx[s].variant = v)

New(combo, default) == [status |-> "DRAFT", default |-> default, combo |-> combo, base |-> FALSE]
Unwanted(v) == ~Exists(v)

-----------------------------------------------------------------------------
(* The product.                                                            *)

CreateProduct(strategy) ==
    /\ product = None
    /\ product' = [status |-> "DRAFT", strategy |-> strategy]
    /\ IF strategy = "STOCKED"
       THEN \E v \in Variants : Unwanted(v) /\ variant' = [variant EXCEPT ![v] = New(Empty, TRUE)]
       ELSE UNCHANGED variant
    /\ UNCHANGED <<values, code, tx>>

\* Deletes one default variant that has no codes; there may be none.
RemoveDefault ==
    IF \E v \in Variants : Default(v)
    THEN \E v \in Variants :
            /\ Default(v) /\ CodesOf(v) = {}
            /\ \A w \in Variants : Default(w) => VariantFree(w)
            /\ variant' = [variant EXCEPT ![v] = None]
    ELSE UNCHANGED variant

AddDefault(variants) ==
    \E v \in Variants : /\ variants[v] = None /\ IndexAdmits(Empty, v)
                        /\ variant' = [variants EXCEPT ![v] = New(Empty, TRUE)]

\* (Mutant: the strategy is open as long as the product is not on sale.)
StrategyOpenUnlessActive == product # None /\ product.status # "ACTIVE"

StrategyOpen == Is("DRAFT")

ChangeStrategy ==
    /\ ProductFree /\ StrategyOpen
    /\ \E strategy \in Strategies \ {product.strategy} :
          /\ product' = [product EXCEPT !.strategy = strategy]
          /\ CASE strategy = "CUSTOM" -> RemoveDefault
               [] strategy = "STOCKED" /\ Present = {} /\ ~\E v \in Variants : Live(v) -> AddDefault(variant)
               [] OTHER -> UNCHANGED variant
    /\ UNCHANGED <<values, code, tx>>

ActivateProduct ==
    /\ ProductFree
    /\ Is("DRAFT") \/ Is("ARCHIVED")
    /\ product.strategy = "STOCKED" => \E v \in Variants : Live(v)
    /\ product' = [product EXCEPT !.status = "ACTIVE"]
    /\ UNCHANGED <<values, variant, code, tx>>

ArchiveProduct ==
    /\ ProductFree
    /\ Is("DRAFT") \/ Is("ACTIVE")
    /\ product' = [product EXCEPT !.status = "ARCHIVED"]
    /\ UNCHANGED <<values, variant, code, tx>>

\* Its groups and variants go with it, unless a variant has codes.
RemoveProduct ==
    /\ ProductFree /\ Is("DRAFT")
    /\ \A v \in Variants : Exists(v) => VariantFree(v) /\ CodesOf(v) = {}
    /\ product' = None
    /\ values' = [g \in Groups |-> None]
    /\ variant' = [v \in Variants |-> None]
    /\ UNCHANGED <<code, tx>>

-----------------------------------------------------------------------------
(* Option groups.                                                          *)

\* The first group takes the place of the default variant.
CreateGroup(g) ==
    /\ ProductFree /\ Is("DRAFT")
    /\ g \notin Present /\ ~HasExplicit
    /\ RemoveDefault
    /\ values' = [values EXCEPT ![g] = {}]
    /\ UNCHANGED <<product, code, tx>>

\* A value that a variant refers to stays.
ReplaceValues(g, new) ==
    /\ g \in Present
    /\ \A v \in Variants : Exists(v) /\ g \in DOMAIN variant[v].combo => variant[v].combo[g] \in new
    /\ values' = [values EXCEPT ![g] = new]
    /\ UNCHANGED <<product, variant, code, tx>>

\* When the last group goes the default variant comes back.
RemoveGroup(g) ==
    /\ ProductFree /\ Is("DRAFT")
    /\ g \in Present /\ ~HasExplicit
    /\ values' = [values EXCEPT ![g] = None]
    /\ IF Present = {g} THEN AddDefault(variant) ELSE UNCHANGED variant
    /\ UNCHANGED <<product, code, tx>>

-----------------------------------------------------------------------------
(* Variants.                                                               *)

Start(s, work) == tx' = [tx EXCEPT ![s] = work] /\ UNCHANGED <<product, values, variant, code>>
Done(s)        == tx' = [tx EXCEPT ![s] = None] /\ UNCHANGED <<product, values, code>>

\* The product is locked, its groups are not.
BeginCreate(s, combo) ==
    /\ tx[s] = None /\ ProductFree /\ product # None
    /\ Complete(combo) /\ SignatureFree(combo, None)
    /\ Start(s, [op |-> "create", variant |-> None, combo |-> combo])

BeginEdit(s, v, combo) ==
    /\ tx[s] = None /\ VariantFree(v) /\ ProductFree
    /\ Explicit(v) /\ variant[v].status = "DRAFT"
    /\ Complete(combo) /\ SignatureFree(combo, v)
    /\ Start(s, [op |-> "edit", variant |-> v, combo |-> combo])

\* Only the variant is locked.
BeginActivate(s, v) ==
    /\ tx[s] = None /\ VariantFree(v)
    /\ Exists(v) /\ variant[v].status # "ACTIVE"
    /\ Is("ACTIVE") /\ (NeedsBase => variant[v].base)
    /\ SignatureFree(variant[v].combo, v)
    /\ Start(s, [op |-> "activate", variant |-> v, combo |-> variant[v].combo])

\* Foreign keys: the chosen values are still there.
Referable(combo) == \A g \in DOMAIN combo : g \in Present /\ combo[g] \in values[g]

CommitCreate(s) ==
    /\ Doing(s, "create") /\ Referable(tx[s].combo)
    /\ \E v \in Variants :
          /\ Unwanted(v) /\ IndexAdmits(tx[s].combo, v)
          /\ variant' = [variant EXCEPT ![v] = New(tx[s].combo, FALSE)]
    /\ Done(s)

CommitEdit(s) ==
    /\ Doing(s, "edit") /\ Referable(tx[s].combo)
    /\ IndexAdmits(tx[s].combo, tx[s].variant)
    /\ variant' = [variant EXCEPT ![tx[s].variant].combo = tx[s].combo]
    /\ Done(s)

CommitActivate(s) ==
    /\ Doing(s, "activate")
    /\ IndexAdmits(tx[s].combo, tx[s].variant)
    /\ variant' = [variant EXCEPT ![tx[s].variant].status = "ACTIVE"]
    /\ Done(s)

Rollback(s) ==
    /\ tx[s] # None
    /\ Done(s) /\ UNCHANGED variant

ArchiveVariant(v) ==
    /\ VariantFree(v) /\ Live(v)
    /\ variant' = [variant EXCEPT ![v].status = "ARCHIVED"]
    /\ UNCHANGED <<product, values, code, tx>>

\* (The module Pricing has when a base unit may be set and changed.)
GiveBaseUom(v) ==
    /\ VariantFree(v) /\ Exists(v) /\ ~variant[v].base
    /\ variant' = [variant EXCEPT ![v].base = TRUE]
    /\ UNCHANGED <<product, values, code, tx>>

-----------------------------------------------------------------------------
(* Codes: every operation locks the variant.                               *)

\* At most one SKU of a variant is in use, any number of barcodes.
SingleActive(v, kind) ==
    kind = "BARCODE" \/ \A c \in CodesOf(v) : ~(code[c].kind = kind /\ code[c].active)

CreateCode(c, v, kind) ==
    /\ VariantFree(v) /\ Live(v)
    /\ code[c] = None /\ SingleActive(v, kind)
    /\ code' = [code EXCEPT ![c] = [variant |-> v, kind |-> kind, active |-> TRUE]]
    /\ UNCHANGED <<product, values, variant, tx>>

\* (Mutant: whatever is not on sale may go.)
NotOnSale(v) == variant[v].status # "ACTIVE"

NeverSold(v) == variant[v].status = "DRAFT"

\* A code of a draft is deleted, any other stays and is out of use.
RemoveCode(c) ==
    /\ code[c] # None /\ VariantFree(code[c].variant)
    /\ code' = [code EXCEPT ![c] = IF NeverSold(@.variant) THEN None ELSE [@ EXCEPT !.active = FALSE]]
    /\ UNCHANGED <<product, values, variant, tx>>

ReactivateCode(c) ==
    /\ code[c] # None /\ VariantFree(code[c].variant)
    /\ ~code[c].active /\ Live(code[c].variant)
    /\ SingleActive(code[c].variant, code[c].kind)
    /\ code' = [code EXCEPT ![c].active = TRUE]
    /\ UNCHANGED <<product, values, variant, tx>>

-----------------------------------------------------------------------------
Init ==
    /\ product = None
    /\ values = [g \in Groups |-> None]
    /\ variant = [v \in Variants |-> None]
    /\ code = [c \in Codes |-> None]
    /\ tx = [s \in Slots |-> None]

ProductStep ==
    \/ \E strategy \in Strategies : CreateProduct(strategy)
    \/ ChangeStrategy
    \/ ActivateProduct \/ ArchiveProduct \/ RemoveProduct

GroupStep == \E g \in Groups :
    \/ CreateGroup(g) \/ RemoveGroup(g)
    \/ \E new \in SUBSET Values : ReplaceValues(g, new)

VariantStep ==
    \/ \E v \in Variants : ArchiveVariant(v) \/ GiveBaseUom(v)
    \/ \E s \in Slots :
          \/ \E combo \in Combos : BeginCreate(s, combo)
          \/ \E v \in Variants : BeginActivate(s, v) \/ \E combo \in Combos : BeginEdit(s, v, combo)
          \/ CommitCreate(s) \/ CommitEdit(s) \/ CommitActivate(s) \/ Rollback(s)

CodeStep == \E c \in Codes :
    \/ \E v \in Variants, kind \in Kinds : CreateCode(c, v, kind)
    \/ RemoveCode(c) \/ ReactivateCode(c)

Next == ProductStep \/ GroupStep \/ VariantStep \/ CodeStep

Spec == Init /\ [][Next]_vars

-----------------------------------------------------------------------------
(* Properties.                                                             *)

\* Shapes of the variables.
TypeOK ==
    /\ product \in ProductRows \cup {None}
    /\ values \in [Groups -> (SUBSET Values) \cup {None}]
    /\ variant \in [Variants -> VariantRows \cup {None}]
    /\ code \in [Codes -> CodeRows \cup {None}]
    /\ tx \in [Slots -> [op : {"create", "edit", "activate"}, variant : Variants \cup {None},
                         combo : Combos] \cup {None}]

\* product.repository.ts:93, L-11: what was complete when it was created stays complete.  Every variant of
\* an optioned product, archived ones too, has one existing value of every group there is.
VariantsAreComplete == \A v \in Variants : Explicit(v) => Complete(variant[v].combo)

\* L-7: no two variants that are not archived stand for the same combination, though reactivations,
\* edits and new variants check it before others have committed.
OneLivePerCombination ==
    \A v, w \in Variants : v # w /\ Live(v) /\ Live(w) => variant[v].combo # variant[w].combo

\* OD-G, L-9: what is on sale has a base unit if it is kept in stock, and no draft product has anything on
\* sale, although an activation reads the product without a lock.
OnSaleIsReady ==
    \A v \in Variants : Exists(v) /\ variant[v].status = "ACTIVE" =>
        ~Is("DRAFT") /\ (NeedsBase => variant[v].base)

\* Owner decision 5: a code that was on a variant beyond its draft is never deleted or moved, not by a
\* restructuring of the product and not with it.
PrintedCodesPersist ==
    [][\A c \in Codes :
          code[c] # None /\ variant[code[c].variant].status # "DRAFT" =>
              /\ code'[c] # None /\ code'[c].variant = code[c].variant
              /\ variant'[code[c].variant] # None]_vars

\* Owner decision 2: a scan finds one variant, and a variant has one SKU in use, whatever was put out of use and
\* back; the variant's lock suffices, without the index.
CodesResolve ==
    \A c \in Codes : code[c] # None =>
        /\ Exists(code[c].variant)
        /\ code[c].active /\ code[c].kind = "SKU" =>
              \A d \in CodesOf(code[c].variant) \ {c} : code[d].kind = "SKU" => ~code[d].active

\* option-group.repository.ts:143, L-4, which does not hold: see the README.
GroupsConsumeDefault == Present # {} => \A v \in Variants : ~Default(v)
=============================================================================
