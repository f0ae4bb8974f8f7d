---------------------------- MODULE CatalogProofs ----------------------------
(***************************************************************************)
(* What holds of a product for any number of option groups, values,        *)
(* variants, codes and operations in flight, and of units and prices for   *)
(* any number of units, branches and replacements in flight.               *)
(***************************************************************************)
EXTENDS Catalog, Pricing, TLAPS

Works == [op : {"create", "edit", "activate"}, variant : Variants \cup {None}, combo : Combos]

-----------------------------------------------------------------------------
(* Invariants.                                                             *)

\* Without a product there are no variants.
NoOrphans == product = None => \A v \in Variants : ~Exists(v)

\* A change of a combination has locked the product: its groups are those of its combination.
ComboRead(s) ==
    Doing(s, "create") \/ Doing(s, "edit") =>
        product # None /\ Present # {} /\ DOMAIN tx[s].combo = Present

\* An edit holds a variant with a combination; an activation holds one that was ready, of a product that
\* had left its draft.
EditRead(s) == Doing(s, "edit") => tx[s].variant \in Variants /\ Explicit(tx[s].variant)
ActivateRead(s) ==
    Doing(s, "activate") =>
        /\ tx[s].variant \in Variants /\ Exists(tx[s].variant)
        /\ product # None /\ product.status # "DRAFT"
        /\ NeedsBase => variant[tx[s].variant].base

IInv ==
    /\ TypeOK /\ NoOrphans
    /\ \A s \in Slots : ComboRead(s) /\ EditRead(s) /\ ActivateRead(s)
    /\ VariantsAreComplete /\ OnSaleIsReady

-----------------------------------------------------------------------------
(* Rows.                                                                   *)

\* A new variant is a row, the combination of a default variant is empty.
LEMMA NewFacts ==
    ASSUME NEW combo \in Combos, NEW default \in BOOLEAN
    PROVE  /\ New(combo, default) \in VariantRows /\ New(combo, default) # None
           /\ New(combo, default).default = default /\ New(combo, default).combo = combo
           /\ New(combo, default).status = "DRAFT" /\ ~New(combo, default).base
<1>1. New(combo, default) \in VariantRows
    BY Zenon DEF New, VariantRows, Statuses
<1> QED
    BY <1>1, CatalogAssumption DEF New

\* The empty combination is one.
LEMMA EmptyFacts == Empty \in Combos
<1>1. Empty \in [{} -> Values] /\ {} \in SUBSET Groups
    BY DEF Empty
<1> QED
    BY <1>1 DEF Combos

\* The changes of a variant's row keep it a row.
LEMMA RowFacts ==
    ASSUME NEW row \in VariantRows, NEW combo \in Combos, NEW st \in Statuses
    PROVE  /\ [row EXCEPT !.status = st] \in VariantRows
           /\ [row EXCEPT !.combo = combo] \in VariantRows
           /\ [row EXCEPT !.base = TRUE] \in VariantRows
    BY Zenon DEF VariantRows

\* One variant is written: the others stay.
LEMMA WriteFacts ==
    ASSUME TypeOK, NEW v \in Variants, NEW row \in VariantRows \cup {None},
           variant' = [variant EXCEPT ![v] = row]
    PROVE  /\ variant' \in [Variants -> VariantRows \cup {None}]
           /\ variant'[v] = row
           /\ \A w \in Variants \ {v} : variant'[w] = variant[w]
    BY DEF TypeOK

\* Variants that are default ones of the draft, or gone, break nothing: nothing that exists is added but
\* default variants that are drafts, nothing is removed but default variants no operation holds.
LEMMA DefaultsKeep ==
    ASSUME IInv, product # None, variant' \in [Variants -> VariantRows \cup {None}],
           \A v \in Variants :
              \/ variant'[v] = variant[v]
              \/ variant'[v] # None /\ variant'[v].default /\ variant'[v].status = "DRAFT" /\ ~Exists(v)
              \/ variant'[v] = None /\ Default(v) /\ VariantFree(v)
    PROVE  /\ \A v \in Variants : Explicit(v)' => Explicit(v) /\ variant'[v] = variant[v]
           /\ \A v \in Variants : Exists(v)' /\ variant'[v].status = "ACTIVE" => variant'[v] = variant[v]
           /\ \A s \in Slots : tx[s] # None /\ tx[s].variant \in Variants /\ Exists(tx[s].variant)
                 => variant'[tx[s].variant] = variant[tx[s].variant]
<1> USE DEF Exists, Explicit, Default, VariantFree
<1> QED
    OBVIOUS

\* The default variant goes only with nothing attached to it.
LEMMA RemoveDefaultFacts ==
    ASSUME IInv, RemoveDefault
    PROVE  /\ variant' \in [Variants -> VariantRows \cup {None}]
           /\ \A v \in Variants :
                 \/ variant'[v] = variant[v]
                 \/ variant'[v] = None /\ Default(v) /\ VariantFree(v) /\ CodesOf(v) = {}
    BY DEF RemoveDefault, IInv, TypeOK

\* The default variant comes where there was none.
LEMMA AddDefaultFacts ==
    ASSUME IInv, AddDefault(variant)
    PROVE  /\ variant' \in [Variants -> VariantRows \cup {None}]
           /\ \A v \in Variants :
                 \/ variant'[v] = variant[v]
                 \/ variant'[v] # None /\ variant'[v].default /\ variant'[v].status = "DRAFT" /\ ~Exists(v)
<1>1. PICK v \in Variants : variant[v] = None /\ variant' = [variant EXCEPT ![v] = New(Empty, TRUE)]
    BY DEF AddDefault
<1>2. New(Empty, TRUE) \in VariantRows /\ New(Empty, TRUE) # None
          /\ New(Empty, TRUE).default /\ New(Empty, TRUE).status = "DRAFT"
    BY NewFacts, EmptyFacts
<1> QED
    BY <1>1, <1>2, WriteFacts DEF IInv, Exists

-----------------------------------------------------------------------------
(* The product and its groups.                                             *)

\* What leaves the variants, the groups and the work keeps them; a product that is on sale or archived
\* stays out of its draft.
LEMMA ProductKeeps ==
    ASSUME IInv, product' \in ProductRows, product # None, product'.strategy = product.strategy,
           product'.status # "DRAFT", UNCHANGED <<values, variant, code, tx>>
    PROVE  IInv'
<1>1. product' # None
    BY CatalogAssumption
<1>2. TypeOK'
    BY DEF IInv, TypeOK
<1> QED
    BY <1>1, <1>2
    DEF IInv, NoOrphans, ComboRead, EditRead, ActivateRead, VariantsAreComplete, OnSaleIsReady,
        Exists, Explicit, Doing, NeedsBase, Is, Complete, Present

\* Activating and archiving a product keep the invariant: they change its status only.
LEMMA TransitionKeeps == IInv /\ (ActivateProduct \/ ArchiveProduct) => IInv'
<1> SUFFICES ASSUME IInv, ActivateProduct \/ ArchiveProduct PROVE IInv'
    OBVIOUS
<1>1. PICK st \in {"ACTIVE", "ARCHIVED"} :
         /\ product # None /\ product' = [product EXCEPT !.status = st]
         /\ UNCHANGED <<values, variant, code, tx>>
    BY DEF ActivateProduct, ArchiveProduct, Is
<1>2. product \in ProductRows
    BY <1>1 DEF IInv, TypeOK
<1>3. [product EXCEPT !.status = st] \in ProductRows
    BY <1>2, Zenon DEF ProductRows, Statuses
<1>4. product'.strategy = product.strategy /\ product'.status = st
    BY <1>1, <1>2 DEF ProductRows
<1> QED
    BY <1>1, <1>3, <1>4, ProductKeeps

\* Creating a product keeps the invariant: there is no group, no variant and no change under way.
LEMMA CreateProductKeeps ==
    ASSUME IInv, NEW strategy \in Strategies, CreateProduct(strategy)
    PROVE  IInv'
<1>1. /\ product = None /\ UNCHANGED <<values, code, tx>>
      /\ product' \in ProductRows /\ product' # None
      /\ \A v \in Variants : ~Exists(v)
      /\ \A s \in Slots : tx[s] = None \/ ~(Doing(s, "create") \/ Doing(s, "edit") \/ Doing(s, "activate"))
    BY CatalogAssumption DEF IInv, NoOrphans, ComboRead, ActivateRead, CreateProduct, ProductRows, Statuses
<1>2. /\ variant' \in [Variants -> VariantRows \cup {None}]
      /\ \A v \in Variants : variant'[v] # None => variant'[v].default /\ variant'[v].status = "DRAFT"
    <2>1. CASE strategy = "STOCKED"
        <3>1. PICK v \in Variants : variant' = [variant EXCEPT ![v] = New(Empty, TRUE)]
            BY <2>1 DEF CreateProduct
        <3> QED
            BY <1>1, <3>1, WriteFacts, NewFacts, EmptyFacts DEF IInv, Exists
    <2>2. CASE strategy # "STOCKED"
        BY <1>1, <2>2 DEF CreateProduct, IInv, TypeOK, Exists
    <2> QED
        BY <2>1, <2>2
<1>3. TypeOK'
    BY <1>1, <1>2 DEF IInv, TypeOK
<1> QED
    BY <1>1, <1>2, <1>3
    DEF IInv, NoOrphans, ComboRead, EditRead, ActivateRead, VariantsAreComplete, OnSaleIsReady,
        Exists, Explicit, Doing

\* In a draft nothing is on sale and no activation is under way.
LEMMA DraftFacts ==
    ASSUME IInv, Is("DRAFT")
    PROVE  /\ product # None /\ product \in ProductRows
           /\ \A v \in Variants : Exists(v) => variant[v].status # "ACTIVE"
           /\ \A s \in Slots : ~Doing(s, "activate")
    BY DEF IInv, TypeOK, OnSaleIsReady, ActivateRead, Is

\* Changing the strategy keeps the invariant: in a draft nothing is on sale, and only a default variant
\* comes or goes.
LEMMA ChangeStrategyKeeps == IInv /\ ChangeStrategy => IInv'
<1> SUFFICES ASSUME IInv, ChangeStrategy PROVE IInv'
    OBVIOUS
<1>1. PICK strategy \in Strategies :
         /\ product' = [product EXCEPT !.strategy = strategy]
         /\ RemoveDefault \/ AddDefault(variant) \/ UNCHANGED variant
    BY DEF ChangeStrategy
<1>2. Is("DRAFT") /\ ProductFree /\ UNCHANGED <<values, code, tx>>
    BY DEF ChangeStrategy, StrategyOpen
<1>3. [product EXCEPT !.strategy = strategy] \in ProductRows
    BY <1>2, DraftFacts, Zenon DEF ProductRows
<1>4. product' \in ProductRows /\ product' # None
    BY <1>1, <1>3, CatalogAssumption
<1>5. /\ variant' \in [Variants -> VariantRows \cup {None}]
      /\ \A v \in Variants :
              \/ variant'[v] = variant[v]
              \/ variant'[v] # None /\ variant'[v].default /\ variant'[v].status = "DRAFT" /\ ~Exists(v)
              \/ variant'[v] = None /\ Default(v) /\ VariantFree(v)
    BY <1>1, RemoveDefaultFacts, AddDefaultFacts DEF IInv, TypeOK
<1>6. TypeOK'
    BY <1>2, <1>4, <1>5 DEF IInv, TypeOK
<1>7. ASSUME NEW s \in Slots PROVE ComboRead(s)' /\ EditRead(s)' /\ ActivateRead(s)'
    BY <1>2, DraftFacts DEF ProductFree, ComboRead, EditRead, ActivateRead, Doing
<1>8. VariantsAreComplete' /\ OnSaleIsReady'
    BY <1>2, <1>5, DefaultsKeep, DraftFacts
    DEF IInv, VariantsAreComplete, OnSaleIsReady, Complete, Present, Exists
<1> QED
    BY <1>4, <1>6, <1>7, <1>8 DEF IInv, NoOrphans

\* Removing a product keeps the invariant: its groups and its variants go with it.
LEMMA RemoveProductKeeps == IInv /\ RemoveProduct => IInv'
<1> SUFFICES ASSUME IInv, RemoveProduct PROVE IInv'
    OBVIOUS
<1>1. /\ product' = None /\ values' = [g \in Groups |-> None] /\ variant' = [v \in Variants |-> None]
      /\ UNCHANGED <<code, tx>> /\ ProductFree /\ Is("DRAFT")
    BY DEF RemoveProduct
<1>2. TypeOK'
    <2>1. values' \in [Groups -> (SUBSET Values) \cup {None}] /\ variant' \in [Variants -> VariantRows \cup {None}]
        BY <1>1
    <2> QED
        BY <1>1, <2>1 DEF IInv, TypeOK
<1>3. ASSUME NEW s \in Slots PROVE ComboRead(s)' /\ EditRead(s)' /\ ActivateRead(s)'
    BY <1>1, DraftFacts DEF ProductFree, ComboRead, EditRead, ActivateRead, Doing
<1> QED
    BY <1>1, <1>2, <1>3 DEF IInv, NoOrphans, VariantsAreComplete, OnSaleIsReady, Exists, Explicit

\* Creating an option group keeps the invariant: there is no variant with a combination yet.
LEMMA CreateGroupKeeps ==
    ASSUME IInv, NEW g \in Groups, CreateGroup(g)
    PROVE  IInv'
<1>1. /\ values' = [values EXCEPT ![g] = {}] /\ UNCHANGED <<product, code, tx>>
      /\ ProductFree /\ Is("DRAFT") /\ ~HasExplicit /\ RemoveDefault
    BY DEF CreateGroup
<1>2. TypeOK'
    BY <1>1, RemoveDefaultFacts DEF IInv, TypeOK
<1>3. ASSUME NEW s \in Slots PROVE ComboRead(s)' /\ EditRead(s)' /\ ActivateRead(s)'
    BY <1>1, DraftFacts DEF ProductFree, ComboRead, EditRead, ActivateRead, Doing
<1>4. \A v \in Variants : ~Explicit(v)'
    BY <1>1, RemoveDefaultFacts DEF HasExplicit, Explicit, Exists
<1>5. OnSaleIsReady'
    BY <1>1, RemoveDefaultFacts, DraftFacts DEF OnSaleIsReady, Exists
<1> QED
    BY <1>1, <1>2, <1>3, <1>4, <1>5, DraftFacts DEF IInv, NoOrphans, VariantsAreComplete

\* Removing an option group keeps the invariant: there is no variant with a combination yet.
LEMMA RemoveGroupKeeps ==
    ASSUME IInv, NEW g \in Groups, RemoveGroup(g)
    PROVE  IInv'
<1>1. /\ values' = [values EXCEPT ![g] = None] /\ UNCHANGED <<product, code, tx>>
      /\ ProductFree /\ Is("DRAFT") /\ ~HasExplicit
      /\ AddDefault(variant) \/ UNCHANGED variant
    BY DEF RemoveGroup
<1>2. /\ variant' \in [Variants -> VariantRows \cup {None}]
      /\ \A v \in Variants :
              \/ variant'[v] = variant[v]
              \/ variant'[v] # None /\ variant'[v].default /\ variant'[v].status = "DRAFT"
    BY <1>1, AddDefaultFacts DEF IInv, TypeOK
<1>3. TypeOK'
    <2>1. values' \in [Groups -> (SUBSET Values) \cup {None}]
        BY <1>1 DEF IInv, TypeOK
    <2> QED
        BY <1>1, <1>2, <2>1 DEF IInv, TypeOK
<1>4. ASSUME NEW s \in Slots PROVE ComboRead(s)' /\ EditRead(s)' /\ ActivateRead(s)'
    BY <1>1, DraftFacts DEF ProductFree, ComboRead, EditRead, ActivateRead, Doing
<1>5. \A v \in Variants : ~Explicit(v)'
    BY <1>1, <1>2 DEF HasExplicit, Explicit, Exists
<1>6. OnSaleIsReady'
    BY <1>1, <1>2, DraftFacts DEF OnSaleIsReady, Exists
<1> QED
    BY <1>1, <1>3, <1>4, <1>5, <1>6, DraftFacts DEF IInv, NoOrphans, VariantsAreComplete

\* Replacing the values of a group keeps the invariant: the values that variants refer to stay.
LEMMA ReplaceValuesKeeps ==
    ASSUME IInv, NEW g \in Groups, NEW new \in SUBSET Values, ReplaceValues(g, new)
    PROVE  IInv'
<1>1. /\ values' = [values EXCEPT ![g] = new] /\ UNCHANGED <<product, variant, code, tx>>
      /\ g \in Present
      /\ \A v \in Variants : Exists(v) /\ g \in DOMAIN variant[v].combo => variant[v].combo[g] \in new
    BY DEF ReplaceValues
<1>2. TypeOK'
    BY <1>1 DEF IInv, TypeOK
<1>3. Present' = Present
    BY <1>1, CatalogAssumption DEF IInv, TypeOK, Present
<1>4. VariantsAreComplete'
    BY <1>1, <1>3 DEF IInv, TypeOK, VariantsAreComplete, Complete, Explicit, Exists
<1> QED
    BY <1>1, <1>2, <1>3, <1>4
    DEF IInv, NoOrphans, ComboRead, EditRead, ActivateRead, OnSaleIsReady, Exists, Explicit, Doing,
        NeedsBase, Is

-----------------------------------------------------------------------------
(* Variants and codes.                                                     *)

\* One row is written that stays the variant it is: default or not, and with its combination and base
\* unit.  If it goes on sale, it was ready.
LEMMA VariantKeeps ==
    ASSUME IInv, NEW v \in Variants, Exists(v), NEW row \in VariantRows,
           variant' = [variant EXCEPT ![v] = row],
           row.default = variant[v].default, row.combo = variant[v].combo,
           variant[v].base => row.base,
           row.status = "ACTIVE" =>
              \/ variant[v].status = "ACTIVE"
              \/ ~Is("DRAFT") /\ (NeedsBase => row.base),
           UNCHANGED <<product, values>>,
           code' \in [Codes -> CodeRows \cup {None}], tx' \in [Slots -> Works \cup {None}],
           \A s \in Slots : tx'[s] = tx[s] \/ tx'[s] = None
    PROVE  IInv'
<1>1. /\ variant' \in [Variants -> VariantRows \cup {None}] /\ variant'[v] = row /\ row # None
      /\ \A w \in Variants \ {v} : variant'[w] = variant[w]
    BY WriteFacts, CatalogAssumption DEF IInv
<1>2. TypeOK'
    BY <1>1 DEF IInv, TypeOK, Works
<1>3. /\ \A w \in Variants : Exists(w)' <=> Exists(w)
      /\ \A w \in Variants : Explicit(w)' <=> Explicit(w)
      /\ \A w \in Variants : variant'[w].combo = variant[w].combo
      /\ \A w \in Variants : variant[w].base => variant'[w].base
    BY <1>1 DEF Exists, Explicit
<1>4. ASSUME NEW s \in Slots PROVE ComboRead(s)' /\ EditRead(s)' /\ ActivateRead(s)'
    BY <1>3 DEF IInv, ComboRead, EditRead, ActivateRead, Doing, NeedsBase, Present
<1>5. VariantsAreComplete'
    BY <1>3 DEF IInv, VariantsAreComplete, Complete, Present
<1>6. OnSaleIsReady'
    BY <1>1 DEF IInv, OnSaleIsReady, Exists, NeedsBase, Is
<1> QED
    BY <1>2, <1>3, <1>4, <1>5, <1>6 DEF IInv, NoOrphans

\* Work begins on what was read.
LEMMA StartKeeps ==
    ASSUME IInv, NEW s \in Slots, NEW work \in Works, tx[s] = None, Start(s, work),
           work.op \in {"create", "edit"} =>
              product # None /\ Present # {} /\ DOMAIN work.combo = Present,
           work.op = "edit" => work.variant \in Variants /\ Explicit(work.variant),
           work.op = "activate" =>
              /\ work.variant \in Variants /\ Exists(work.variant)
              /\ product # None /\ product.status # "DRAFT"
              /\ NeedsBase => variant[work.variant].base
    PROVE  IInv'
<1>1. /\ tx' \in [Slots -> Works \cup {None}] /\ tx'[s] = work
      /\ \A r \in Slots \ {s} : tx'[r] = tx[r]
      /\ UNCHANGED <<product, values, variant, code>>
    BY DEF IInv, TypeOK, Start, Works
<1>2. TypeOK'
    BY <1>1 DEF IInv, TypeOK, Works
<1>3. ASSUME NEW r \in Slots PROVE ComboRead(r)' /\ EditRead(r)' /\ ActivateRead(r)'
    BY <1>1 DEF IInv, ComboRead, EditRead, ActivateRead, Doing, Present, Explicit, Exists, NeedsBase
<1> QED
    BY <1>1, <1>2, <1>3 DEF IInv, NoOrphans, VariantsAreComplete, OnSaleIsReady, Exists, Explicit,
                            NeedsBase, Is, Complete, Present

\* A change of a variant that begins keeps the invariant: it has read what it has locked.
LEMMA BeginKeeps ==
    ASSUME IInv, NEW s \in Slots, NEW combo \in Combos, NEW v \in Variants,
           BeginCreate(s, combo) \/ BeginEdit(s, v, combo) \/ BeginActivate(s, v)
    PROVE  IInv'
<1>1. CASE BeginCreate(s, combo)
    <2> DEFINE work == [op |-> "create", variant |-> None, combo |-> combo]
    <2>1. work \in Works /\ work.op = "create" /\ work.combo = combo
        BY DEF Works
    <2>2. Start(s, work) /\ tx[s] = None /\ product # None /\ Complete(combo)
        BY <1>1 DEF BeginCreate
    <2> HIDE DEF work
    <2> QED
        BY <2>1, <2>2, StartKeeps DEF Complete
<1>2. CASE BeginEdit(s, v, combo)
    <2> DEFINE work == [op |-> "edit", variant |-> v, combo |-> combo]
    <2>1. work \in Works /\ work.op = "edit" /\ work.combo = combo /\ work.variant = v
        BY DEF Works
    <2>2. Start(s, work) /\ tx[s] = None /\ Explicit(v) /\ Complete(combo)
        BY <1>2 DEF BeginEdit
    <2>3. product # None
        BY <2>2 DEF IInv, NoOrphans, Explicit
    <2> HIDE DEF work
    <2> QED
        BY <2>1, <2>2, <2>3, StartKeeps DEF Complete
<1>3. CASE BeginActivate(s, v)
    <2> DEFINE work == [op |-> "activate", variant |-> v, combo |-> variant[v].combo]
    <2>1. variant[v] \in VariantRows
        BY <1>3 DEF BeginActivate, Exists, IInv, TypeOK
    <2>2. work \in Works /\ work.op = "activate" /\ work.variant = v
        BY <2>1 DEF Works, VariantRows
    <2>3. /\ Start(s, work) /\ tx[s] = None /\ Exists(v) /\ product # None /\ product.status # "DRAFT"
          /\ NeedsBase => variant[v].base
        BY <1>3 DEF BeginActivate, Is
    <2> HIDE DEF work
    <2> QED
        BY <2>2, <2>3, StartKeeps
<1> QED
    BY <1>1, <1>2, <1>3

\* Work ends.
LEMMA DoneFacts ==
    ASSUME IInv, NEW s \in Slots, Done(s)
    PROVE  /\ UNCHANGED <<product, values, code>>
           /\ tx' \in [Slots -> Works \cup {None}] /\ tx'[s] = None
           /\ \A r \in Slots : tx'[r] = tx[r] \/ tx'[r] = None
    BY DEF Done, IInv, TypeOK, Works

\* Creating a variant keeps the invariant: its combination is complete for the groups that were read.
LEMMA CommitCreateKeeps ==
    ASSUME IInv, NEW s \in Slots, CommitCreate(s)
    PROVE  IInv'
<1> DEFINE combo == tx[s].combo
<1>1. PICK v \in Variants : Unwanted(v) /\ variant' = [variant EXCEPT ![v] = New(combo, FALSE)]
    BY DEF CommitCreate
<1>2. combo \in Combos /\ DOMAIN combo = Present /\ Present # {} /\ product # None /\ Referable(combo)
    BY DEF CommitCreate, IInv, TypeOK, ComboRead, Doing
<1>3. New(combo, FALSE) \in VariantRows /\ New(combo, FALSE) # None /\ ~New(combo, FALSE).default
         /\ New(combo, FALSE).combo = combo /\ New(combo, FALSE).status = "DRAFT"
    BY <1>2, NewFacts
<1>4. /\ variant' \in [Variants -> VariantRows \cup {None}] /\ variant'[v] = New(combo, FALSE)
      /\ \A w \in Variants \ {v} : variant'[w] = variant[w]
    BY <1>1, <1>3, WriteFacts DEF IInv
<1>5. /\ UNCHANGED <<product, values, code>> /\ tx' \in [Slots -> Works \cup {None}]
      /\ \A r \in Slots : tx'[r] = tx[r] \/ tx'[r] = None
    BY DoneFacts DEF CommitCreate
<1>6. TypeOK'
    BY <1>4, <1>5 DEF IInv, TypeOK, Works
<1>7. ASSUME NEW r \in Slots PROVE ComboRead(r)' /\ EditRead(r)' /\ ActivateRead(r)'
    BY <1>1, <1>4, <1>5 DEF IInv, ComboRead, EditRead, ActivateRead, Doing, NeedsBase, Present, Exists,
                            Explicit, Unwanted
<1>8. Complete(combo)
    BY <1>2 DEF Complete, Referable
<1>9. VariantsAreComplete'
    BY <1>3, <1>4, <1>5, <1>8 DEF IInv, VariantsAreComplete, Complete, Present, Explicit, Exists
<1>10. OnSaleIsReady'
    BY <1>3, <1>4, <1>5 DEF IInv, OnSaleIsReady, Exists, NeedsBase, Is
<1> QED
    BY <1>2, <1>5, <1>6, <1>7, <1>9, <1>10 DEF IInv, NoOrphans

\* Editing a variant keeps the invariant: so is the combination it is given.
LEMMA CommitEditKeeps ==
    ASSUME IInv, NEW s \in Slots, CommitEdit(s)
    PROVE  IInv'
<1> DEFINE combo == tx[s].combo
<1> PICK v \in Variants : v = tx[s].variant
    BY DEF CommitEdit, IInv, EditRead
<1>1. /\ Explicit(v) /\ combo \in Combos /\ DOMAIN combo = Present /\ Present # {} /\ product # None
      /\ Referable(combo) /\ variant[v] \in VariantRows
      /\ variant' = [variant EXCEPT ![v] = [variant[v] EXCEPT !.combo = combo]]
    BY DEF CommitEdit, IInv, TypeOK, ComboRead, EditRead, Doing, Explicit, Exists
<1>2. PICK row \in VariantRows :
         /\ variant' = [variant EXCEPT ![v] = row] /\ row.combo = combo
         /\ row.default = variant[v].default /\ row.status = variant[v].status /\ row.base = variant[v].base
    <2>1. [variant[v] EXCEPT !.combo = combo] \in VariantRows
        BY <1>1, RowFacts DEF Statuses
    <2> QED
        BY <1>1, <2>1 DEF VariantRows
<1>4. /\ variant' \in [Variants -> VariantRows \cup {None}] /\ variant'[v] = row /\ row # None
      /\ \A w \in Variants \ {v} : variant'[w] = variant[w]
    BY <1>2, WriteFacts, CatalogAssumption DEF IInv
<1>5. /\ UNCHANGED <<product, values, code>> /\ tx' \in [Slots -> Works \cup {None}]
      /\ \A r \in Slots : tx'[r] = tx[r] \/ tx'[r] = None
    BY DoneFacts DEF CommitEdit
<1>6. TypeOK'
    BY <1>4, <1>5 DEF IInv, TypeOK, Works
<1>7. ASSUME NEW r \in Slots PROVE ComboRead(r)' /\ EditRead(r)' /\ ActivateRead(r)'
    BY <1>1, <1>2, <1>4, <1>5 DEF IInv, ComboRead, EditRead, ActivateRead, Doing, NeedsBase, Present,
                                  Exists, Explicit
<1>8. Complete(combo)
    BY <1>1 DEF Complete, Referable
<1>9. VariantsAreComplete'
    BY <1>2, <1>4, <1>5, <1>8 DEF IInv, VariantsAreComplete, Complete, Present, Explicit, Exists
<1>10. OnSaleIsReady'
    BY <1>1, <1>2, <1>4, <1>5 DEF IInv, OnSaleIsReady, Exists, Explicit, NeedsBase, Is
<1> QED
    BY <1>1, <1>5, <1>6, <1>7, <1>9, <1>10 DEF IInv, NoOrphans

\* Activating a variant keeps the invariant: it was ready when it was read, and still is.
LEMMA CommitActivateKeeps ==
    ASSUME IInv, NEW s \in Slots, CommitActivate(s)
    PROVE  IInv'
<1> PICK v \in Variants : v = tx[s].variant
    BY DEF CommitActivate, IInv, ActivateRead
<1>1. /\ Exists(v) /\ product.status # "DRAFT" /\ (NeedsBase => variant[v].base)
      /\ variant[v] \in VariantRows
      /\ variant' = [variant EXCEPT ![v] = [variant[v] EXCEPT !.status = "ACTIVE"]]
    BY DEF CommitActivate, IInv, TypeOK, ActivateRead, Exists
<1>2. PICK row \in VariantRows :
         /\ variant' = [variant EXCEPT ![v] = row] /\ row.combo = variant[v].combo
         /\ row.default = variant[v].default /\ row.base = variant[v].base
    <2>1. [variant[v] EXCEPT !.status = "ACTIVE"] \in VariantRows
        BY <1>1, Zenon DEF VariantRows, Statuses
    <2> QED
        BY <1>1, <2>1 DEF VariantRows
<1>3. /\ UNCHANGED <<product, values, code>> /\ tx' \in [Slots -> Works \cup {None}]
      /\ \A r \in Slots : tx'[r] = tx[r] \/ tx'[r] = None
    BY DoneFacts DEF CommitActivate
<1>4. code' \in [Codes -> CodeRows \cup {None}] /\ ~Is("DRAFT")
    BY <1>1, <1>3 DEF IInv, TypeOK, Is
<1> QED
    BY <1>1, <1>2, <1>3, <1>4, VariantKeeps

\* Rolling back keeps the invariant.
LEMMA RollbackKeeps ==
    ASSUME IInv, NEW s \in Slots, Rollback(s)
    PROVE  IInv'
<1>1. /\ UNCHANGED <<product, values, code, variant>> /\ tx' \in [Slots -> Works \cup {None}]
      /\ \A r \in Slots : tx'[r] = tx[r] \/ tx'[r] = None
    BY DoneFacts DEF Rollback
<1>2. TypeOK'
    BY <1>1 DEF IInv, TypeOK, Works
<1>3. ASSUME NEW r \in Slots PROVE ComboRead(r)' /\ EditRead(r)' /\ ActivateRead(r)'
    BY <1>1 DEF IInv, ComboRead, EditRead, ActivateRead, Doing, Present, Explicit, Exists, NeedsBase
<1> QED
    BY <1>1, <1>2, <1>3 DEF IInv, NoOrphans, VariantsAreComplete, OnSaleIsReady, Exists, Explicit,
                            NeedsBase, Is, Complete, Present

\* A variant is archived, or its base unit set.
LEMMA VariantStepKeeps ==
    ASSUME IInv, NEW v \in Variants, ArchiveVariant(v) \/ GiveBaseUom(v)
    PROVE  IInv'
<1>1. /\ Exists(v) /\ variant[v] \in VariantRows /\ UNCHANGED <<product, values, code, tx>>
      /\ code' \in [Codes -> CodeRows \cup {None}] /\ tx' \in [Slots -> Works \cup {None}]
    BY DEF ArchiveVariant, GiveBaseUom, IInv, TypeOK, Exists, Live, Works
<1>2. CASE ArchiveVariant(v)
    <2>1. [variant[v] EXCEPT !.status = "ARCHIVED"] \in VariantRows
        BY <1>1, Zenon DEF VariantRows, Statuses
    <2>2. variant' = [variant EXCEPT ![v] = [variant[v] EXCEPT !.status = "ARCHIVED"]]
        BY <1>2 DEF ArchiveVariant, IInv, TypeOK
    <2> DEFINE row == [variant[v] EXCEPT !.status = "ARCHIVED"]
    <2>3. row.combo = variant[v].combo /\ row.default = variant[v].default /\ row.base = variant[v].base
             /\ row.status = "ARCHIVED"
        BY <1>1 DEF VariantRows
    <2> HIDE DEF row
    <2> QED
        BY <1>1, <2>1, <2>2, <2>3, VariantKeeps DEF row
<1>3. CASE GiveBaseUom(v)
    <2>1. [variant[v] EXCEPT !.base = TRUE] \in VariantRows
        BY <1>1, Zenon DEF VariantRows
    <2>2. variant' = [variant EXCEPT ![v] = [variant[v] EXCEPT !.base = TRUE]]
        BY <1>3 DEF GiveBaseUom, IInv, TypeOK
    <2> DEFINE row == [variant[v] EXCEPT !.base = TRUE]
    <2>3. row.combo = variant[v].combo /\ row.default = variant[v].default /\ row.base
             /\ row.status = variant[v].status
        BY <1>1 DEF VariantRows
    <2> HIDE DEF row
    <2> QED
        BY <1>1, <2>1, <2>2, <2>3, VariantKeeps DEF row
<1> QED
    BY <1>2, <1>3

\* An operation on one code.
OnCode(c) ==
    \/ \E v \in Variants, kind \in Kinds : CreateCode(c, v, kind)
    \/ RemoveCode(c) \/ ReactivateCode(c)

\* A code's row is written: the others stay.
LEMMA CodeFacts ==
    ASSUME IInv, NEW c \in Codes, OnCode(c)
    PROVE  /\ UNCHANGED <<product, values, variant, tx>>
           /\ code' \in [Codes -> CodeRows \cup {None}]
           /\ \A d \in Codes \ {c} : code'[d] = code[d]
           /\ code[c] # None => code[c] \in CodeRows
           /\ code[c] # None /\ code'[c] # None =>
                 code'[c].variant = code[c].variant /\ code'[c].kind = code[c].kind
           /\ code[c] = None => \E v \in Variants, kind \in Kinds :
                 CreateCode(c, v, kind) /\ code'[c] = [variant |-> v, kind |-> kind, active |-> TRUE]
           /\ code[c] # None /\ code'[c] = None => variant[code[c].variant].status = "DRAFT"
           /\ code[c] # None /\ code'[c] # None /\ code'[c].active => ReactivateCode(c)
<1>1. UNCHANGED <<product, values, variant, tx>>
    BY DEF OnCode, CreateCode, RemoveCode, ReactivateCode
<1>2. code \in [Codes -> CodeRows \cup {None}]
    BY DEF IInv, TypeOK
<1>3. ASSUME NEW v \in Variants, NEW kind \in Kinds, CreateCode(c, v, kind)
      PROVE  /\ code' \in [Codes -> CodeRows \cup {None}]
             /\ \A d \in Codes \ {c} : code'[d] = code[d]
             /\ code[c] = None /\ code'[c] = [variant |-> v, kind |-> kind, active |-> TRUE]
    <2>1. code[c] = None /\ code' = [code EXCEPT ![c] = [variant |-> v, kind |-> kind, active |-> TRUE]]
        BY <1>3 DEF CreateCode
    <2>2. [variant |-> v, kind |-> kind, active |-> TRUE] \in CodeRows
        BY Zenon DEF CodeRows
    <2> QED
        BY <1>1, <1>2, <1>3, <2>1, <2>2
<1>4. CASE RemoveCode(c)
    <2> DEFINE row == [code[c] EXCEPT !.active = FALSE]
    <2>1. code[c] # None /\ code[c] \in CodeRows
        BY <1>2, <1>4 DEF RemoveCode
    <2>2. row \in CodeRows
        BY <2>1, Zenon DEF CodeRows
    <2>3. row.variant = code[c].variant /\ row.kind = code[c].kind /\ ~row.active
        BY <2>1 DEF CodeRows
    <2>4. code' = [code EXCEPT ![c] = IF NeverSold(code[c].variant) THEN None ELSE row]
        BY <1>4 DEF RemoveCode
    <2>5. None \notin CodeRows
        BY CatalogAssumption
    <2> HIDE DEF row
    <2> QED
        BY <1>1, <1>2, <2>1, <2>2, <2>3, <2>4, <2>5 DEF NeverSold
<1>5. CASE ReactivateCode(c)
    <2> DEFINE row == [code[c] EXCEPT !.active = TRUE]
    <2>1. code[c] # None /\ code[c] \in CodeRows
        BY <1>2, <1>5 DEF ReactivateCode
    <2>2. row \in CodeRows
        BY <2>1, Zenon DEF CodeRows
    <2>3. row.variant = code[c].variant /\ row.kind = code[c].kind
        BY <2>1 DEF CodeRows
    <2>4. code' = [code EXCEPT ![c] = row]
        BY <1>5 DEF ReactivateCode
    <2>5. None \notin CodeRows
        BY CatalogAssumption
    <2> HIDE DEF row
    <2> QED
        BY <1>1, <1>2, <1>5, <2>1, <2>2, <2>3, <2>4, <2>5
<1> QED
    BY <1>1, <1>3, <1>4, <1>5 DEF OnCode

\* Operations on codes leave the product and its variants alone.
LEMMA CodeKeeps ==
    ASSUME IInv, CodeStep
    PROVE  IInv'
<1>1. UNCHANGED <<product, values, variant, tx>> /\ code' \in [Codes -> CodeRows \cup {None}]
    BY CodeFacts DEF CodeStep, OnCode
<1>2. TypeOK'
    BY <1>1 DEF IInv, TypeOK
<1> QED
    BY <1>1, <1>2
    DEF IInv, NoOrphans, ComboRead, EditRead, ActivateRead, VariantsAreComplete, OnSaleIsReady,
        Exists, Explicit, Doing, NeedsBase, Is, Complete, Present

-----------------------------------------------------------------------------
(* The invariant.                                                          *)

\* The invariant holds at first.
LEMMA InvInit == Init => IInv
    BY DEF Init, IInv, TypeOK, NoOrphans, ComboRead, EditRead, ActivateRead, Doing, VariantsAreComplete,
           OnSaleIsReady, Exists, Explicit

\* Every step keeps it.
LEMMA InvStep == IInv /\ [Next]_vars => IInv'
<1> SUFFICES ASSUME IInv, [Next]_vars PROVE IInv'
    OBVIOUS
<1>1. CASE UNCHANGED vars
    BY <1>1 DEF vars, IInv, TypeOK, NoOrphans, ComboRead, EditRead, ActivateRead, VariantsAreComplete,
                OnSaleIsReady, Exists, Explicit, Doing, NeedsBase, Is, Complete, Present
<1>2. CASE ProductStep
    BY <1>2, TransitionKeeps, CreateProductKeeps, ChangeStrategyKeeps, RemoveProductKeeps DEF ProductStep
<1>3. CASE GroupStep
    BY <1>3, CreateGroupKeeps, RemoveGroupKeeps, ReplaceValuesKeeps DEF GroupStep
<1>4. CASE VariantStep
    <2>1. ASSUME NEW s \in Slots, NEW combo \in Combos, BeginCreate(s, combo) PROVE IInv'
        <3> DEFINE work == [op |-> "create", variant |-> None, combo |-> combo]
        <3>1. work \in Works /\ work.op = "create" /\ work.combo = combo
            BY DEF Works
        <3>2. Start(s, work) /\ tx[s] = None /\ product # None /\ Complete(combo)
            BY <2>1 DEF BeginCreate
        <3> HIDE DEF work
        <3> QED
            BY <3>1, <3>2, StartKeeps DEF Complete
    <2>2. ASSUME NEW s \in Slots, NEW v \in Variants, NEW combo \in Combos,
                 BeginActivate(s, v) \/ BeginEdit(s, v, combo)
          PROVE  IInv'
        BY <2>2, BeginKeeps
    <2>3. ASSUME NEW s \in Slots, NEW v \in Variants, BeginActivate(s, v) PROVE IInv'
        BY <2>2, <2>3, EmptyFacts
    <2> QED
        BY <1>4, <2>1, <2>2, <2>3, VariantStepKeeps, CommitCreateKeeps, CommitEditKeeps,
           CommitActivateKeeps, RollbackKeeps DEF VariantStep
<1> QED
    BY <1>1, <1>2, <1>3, <1>4, CodeKeeps DEF Next

\* It always holds.
LEMMA InvHolds == Spec => []IInv
    BY InvInit, InvStep, PTL DEF Spec

\* The variables keep their shapes.
THEOREM CatalogTypeCorrect == Spec => []TypeOK
<1>1. IInv => TypeOK
    BY DEF IInv
<1> QED
    BY <1>1, InvHolds, PTL

\* product.repository.ts:93, L-11: what was complete when it was created stays complete, for any number of
\* groups, values and variants, although an operation reads the groups without locking them.
THEOREM CompleteHolds == Spec => []VariantsAreComplete
<1>1. IInv => VariantsAreComplete
    BY DEF IInv
<1> QED
    BY <1>1, InvHolds, PTL

\* OD-G, L-9: what is on sale has its base unit if it is kept in stock, and no draft product sells,
\* although an activation reads the product without locking it.
THEOREM OnSaleHolds == Spec => []OnSaleIsReady
<1>1. IInv => OnSaleIsReady
    BY DEF IInv
<1> QED
    BY <1>1, InvHolds, PTL

-----------------------------------------------------------------------------
(* Codes.                                                                  *)

\* A variant that has a code stays.
LEMMA CodedStays ==
    ASSUME IInv, [Next]_vars, NEW v \in Variants, Exists(v), CodesOf(v) # {}
    PROVE  Exists(v)'
<1>1. CASE ProductStep
    <2>1. ASSUME NEW strategy \in Strategies, CreateProduct(strategy) PROVE Exists(v)'
        BY <2>1 DEF CreateProduct, IInv, NoOrphans
    <2>2. CASE ChangeStrategy
        <3>1. RemoveDefault \/ AddDefault(variant) \/ UNCHANGED variant
            BY <2>2 DEF ChangeStrategy
        <3> QED
            BY <3>1, RemoveDefaultFacts, AddDefaultFacts DEF Exists
    <2>3. CASE ActivateProduct \/ ArchiveProduct
        BY <2>3 DEF ActivateProduct, ArchiveProduct, Exists
    <2>4. CASE RemoveProduct
        BY <2>4 DEF RemoveProduct
    <2> QED
        BY <1>1, <2>1, <2>2, <2>3, <2>4 DEF ProductStep
<1>2. CASE GroupStep
    <2>1. RemoveDefault \/ AddDefault(variant) \/ UNCHANGED variant
        BY <1>2 DEF GroupStep, CreateGroup, RemoveGroup, ReplaceValues
    <2> QED
        BY <2>1, RemoveDefaultFacts, AddDefaultFacts DEF Exists
<1>3. CASE VariantStep
    <2>0. \A w \in Variants : Exists(w) => variant[w] \in VariantRows
        BY DEF IInv, TypeOK, Exists
    <2>1. ASSUME NEW w \in Variants, NEW row \in VariantRows, variant' = [variant EXCEPT ![w] = row]
          PROVE  Exists(v)'
        BY <2>1, WriteFacts, CatalogAssumption DEF IInv, Exists
    <2>2. ASSUME NEW w \in Variants, ArchiveVariant(w) \/ GiveBaseUom(w) PROVE Exists(v)'
        <3>1. [variant[w] EXCEPT !.status = "ARCHIVED"] \in VariantRows
                 /\ [variant[w] EXCEPT !.base = TRUE] \in VariantRows
            <4>1. variant[w] \in VariantRows
                BY <2>0, <2>2 DEF ArchiveVariant, GiveBaseUom, Live
            <4> QED
                BY <4>1, Zenon DEF VariantRows, Statuses
        <3> QED
            BY <2>1, <2>2, <3>1 DEF ArchiveVariant, GiveBaseUom
    <2>3. ASSUME NEW s \in Slots, CommitCreate(s) PROVE Exists(v)'
        <3>1. tx[s].combo \in Combos
            BY <2>3 DEF CommitCreate, Doing, IInv, TypeOK
        <3> QED
            BY <2>1, <2>3, <3>1, NewFacts DEF CommitCreate
    <2>4. ASSUME NEW s \in Slots, CommitEdit(s) \/ CommitActivate(s) PROVE Exists(v)'
        <3>1. tx[s].combo \in Combos /\ tx[s].variant \in Variants /\ Exists(tx[s].variant)
            BY <2>4 DEF CommitEdit, CommitActivate, Doing, IInv, TypeOK, EditRead, ActivateRead, Explicit
        <3>2. [variant[tx[s].variant] EXCEPT !.combo = tx[s].combo] \in VariantRows
                 /\ [variant[tx[s].variant] EXCEPT !.status = "ACTIVE"] \in VariantRows
            <4>1. variant[tx[s].variant] \in VariantRows
                BY <2>0, <3>1
            <4> QED
                BY <3>1, <4>1, Zenon DEF VariantRows, Statuses
        <3> QED
            BY <2>1, <2>4, <3>1, <3>2 DEF CommitEdit, CommitActivate
    <2>5. ASSUME UNCHANGED variant PROVE Exists(v)'
        BY <2>5 DEF Exists
    <2> QED
        BY <1>3, <2>2, <2>3, <2>4, <2>5 DEF VariantStep, BeginCreate, BeginEdit, BeginActivate, Start, Rollback
<1>4. CASE CodeStep
    BY <1>4, CodeFacts DEF CodeStep, OnCode, Exists
<1>5. CASE UNCHANGED vars
    BY <1>5 DEF vars, Exists
<1> QED
    BY <1>1, <1>2, <1>3, <1>4, <1>5 DEF Next

\* Codes are written by the operations on codes only.
LEMMA WhoWritesCodes ==
    ASSUME [Next]_vars, ~CodeStep
    PROVE  code' = code
    BY DEF Next, vars, ProductStep, CreateProduct, ChangeStrategy, ActivateProduct, ArchiveProduct,
           RemoveProduct, GroupStep, CreateGroup, RemoveGroup, ReplaceValues, VariantStep, ArchiveVariant,
           GiveBaseUom, BeginCreate, BeginEdit, BeginActivate, Start, CommitCreate, CommitEdit,
           CommitActivate, Rollback, Done

\* An operation on a code finds its variant, and leaves a variant one SKU in use.
LEMMA ResolveCodeStep ==
    ASSUME IInv, CodesResolve, NEW c \in Codes, OnCode(c)
    PROVE  CodesResolve'
<1>1. /\ UNCHANGED variant
      /\ \A d \in Codes \ {c} : code'[d] = code[d]
    BY CodeFacts
<1>2. ASSUME code'[c] # None PROVE variant'[code'[c].variant] # None
    <2>1. CASE code[c] = None
        <3>1. PICK v \in Variants, kind \in Kinds :
                 CreateCode(c, v, kind) /\ code'[c] = [variant |-> v, kind |-> kind, active |-> TRUE]
            BY <2>1, CodeFacts
        <3>2. Exists(v) /\ code'[c].variant = v
            BY <3>1 DEF CreateCode, Live
        <3> QED
            BY <1>1, <3>2 DEF Exists
    <2>2. CASE code[c] # None
        <3>1. code'[c].variant = code[c].variant
            BY <1>2, <2>2, CodeFacts
        <3> QED
            BY <1>1, <2>2, <3>1 DEF CodesResolve, Exists
    <2> QED
        BY <2>1, <2>2
<1>3. ASSUME NEW d \in Codes \ {c}, code'[c] # None, code'[c].active, code'[c].kind = "SKU", code[d] # None,
             code[d].variant = code'[c].variant, code[d].kind = "SKU"
      PROVE  ~code[d].active
    <2>1. d \in CodesOf(code'[c].variant)
        BY <1>3 DEF CodesOf
    <2>2. SingleActive(code'[c].variant, "SKU")
        <3>1. CASE code[c] = None
            <4>1. PICK v \in Variants, kind \in Kinds :
                     CreateCode(c, v, kind) /\ code'[c] = [variant |-> v, kind |-> kind, active |-> TRUE]
                BY <3>1, CodeFacts
            <4> QED
                BY <1>3, <4>1 DEF CreateCode
        <3>2. CASE code[c] # None
            BY <1>3, <3>2, CodeFacts DEF ReactivateCode
        <3> QED
            BY <3>1, <3>2
    <2> QED
        BY <1>3, <2>1, <2>2 DEF SingleActive
<1>4. ASSUME NEW b \in Codes, code'[b] # None PROVE variant'[code'[b].variant] # None
    BY <1>1, <1>2, <1>4 DEF CodesResolve, Exists
<1>5. ASSUME NEW b \in Codes, code'[b] # None, code'[b].active, code'[b].kind = "SKU",
             NEW d \in Codes \ {b}, code'[d] # None, code'[d].variant = code'[b].variant, code'[d].kind = "SKU"
      PROVE  ~code'[d].active
    <2>1. CASE b = c
        BY <1>1, <1>3, <1>5, <2>1
    <2>2. CASE d = c
        <3>1. b \in Codes \ {c} /\ code[b] = code'[b]
            BY <1>1, <1>5, <2>2
        <3>2. ~(code'[c].active)
            BY <1>3, <1>5, <2>2, <3>1
        <3> QED
            BY <2>2, <3>2
    <2>3. CASE b # c /\ d # c
        <3>1. code'[b] = code[b] /\ code'[d] = code[d]
            BY <1>1, <2>3
        <3>2. d \in CodesOf(code[b].variant)
            BY <1>5, <3>1 DEF CodesOf
        <3> QED
            BY <1>5, <3>1, <3>2 DEF CodesResolve
    <2> QED
        BY <2>1, <2>2, <2>3
<1> QED
    BY <1>4, <1>5 DEF CodesResolve, CodesOf, Exists

\* At first there are no codes.
LEMMA ResolveInit == Init => CodesResolve
    BY DEF Init, CodesResolve

\* Every step keeps the live codes resolving.
LEMMA ResolveStep == IInv /\ CodesResolve /\ [Next]_vars => CodesResolve'
<1> SUFFICES ASSUME IInv, CodesResolve, [Next]_vars PROVE CodesResolve'
    OBVIOUS
<1>1. CASE CodeStep
    BY <1>1, ResolveCodeStep DEF CodeStep, OnCode
<1>2. CASE ~CodeStep
    <2>1. code' = code
        BY <1>2, WhoWritesCodes
    <2>2. ASSUME NEW c \in Codes, code[c] # None PROVE Exists(code[c].variant)'
        <3>1. PICK v \in Variants : v = code[c].variant
            BY <2>2 DEF IInv, TypeOK, CodeRows
        <3>2. Exists(v) /\ CodesOf(v) # {}
            BY <2>2, <3>1 DEF CodesResolve, CodesOf
        <3>3. Exists(v)'
            BY <3>2, CodedStays
        <3> QED
            BY <3>1, <3>3, <2>1 DEF Exists
    <2> QED
        BY <2>1, <2>2 DEF CodesResolve, CodesOf, Exists
<1> QED
    BY <1>1, <1>2

\* They always resolve.
LEMMA ResolveHolds == Spec => [](IInv /\ CodesResolve)
    BY InvInit, InvStep, ResolveInit, ResolveStep, PTL DEF Spec

\* Owner decision 2: every code is some variant's, and the variant's lock alone, without the index, leaves it one
\* SKU in use, for any number of codes put out of use and back.
THEOREM CodesHold == Spec => []CodesResolve
    BY ResolveHolds, PTL

\* Owner decision 5: a code of a variant beyond its draft is never deleted, moved, or left without its variant.
THEOREM PrintedHolds == Spec => PrintedCodesPersist
<1>1. ASSUME IInv, CodesResolve, [Next]_vars, NEW c \in Codes,
             code[c] # None, variant[code[c].variant].status # "DRAFT"
      PROVE  /\ code'[c] # None /\ code'[c].variant = code[c].variant
             /\ variant'[code[c].variant] # None
    <2>1. code[c].variant \in Variants /\ Exists(code[c].variant) /\ c \in CodesOf(code[c].variant)
        BY <1>1 DEF CodesResolve, CodesOf, IInv, TypeOK, CodeRows
    <2>2. CASE CodeStep
        <3>1. PICK d \in Codes : OnCode(d)
            BY <2>2 DEF CodeStep, OnCode
        <3>2. variant' = variant /\ (d # c => code'[c] = code[c])
            BY <1>1, <3>1, CodeFacts
        <3>3. CASE d = c
            BY <1>1, <2>1, <3>1, <3>2, <3>3, CodeFacts DEF Exists
        <3> QED
            BY <1>1, <2>1, <3>2, <3>3 DEF Exists
    <2>3. CASE ~CodeStep
        <3>1. code' = code
            BY <1>1, <2>3, WhoWritesCodes
        <3>2. PICK v \in Variants : v = code[c].variant
            BY <2>1
        <3>3. Exists(v) /\ CodesOf(v) # {}
            BY <2>1, <3>2
        <3>4. Exists(v)'
            BY <1>1, <3>3, CodedStays
        <3> QED
            BY <1>1, <3>1, <3>2, <3>4 DEF Exists
    <2> QED
        BY <2>2, <2>3
<1>2. IInv /\ CodesResolve /\ [Next]_vars =>
         \A c \in Codes :
            code[c] # None /\ variant[code[c].variant].status # "DRAFT" =>
                /\ code'[c] # None /\ code'[c].variant = code[c].variant
                /\ variant'[code[c].variant] # None
    BY <1>1
<1> QED
    BY <1>2, ResolveHolds, PTL DEF Spec, PrintedCodesPersist

-----------------------------------------------------------------------------
(* Units and prices.                                                       *)

-----------------------------------------------------------------------------
(* Shapes.                                                                 *)

Stages == {"validate", "claim", "check", "commit"}
Replacements == [owner : Owners, seen : Sets, entries : SUBSET Units,
                 base : Units \cup {NoUnit}, shared : BOOLEAN, at : Stages]

\* The database's tables; a replacement with prices has found a base unit, and one that has begun can
\* still count its version up.
TablesOK ==
    /\ registered \subseteq Custom
    /\ base \in Units \cup {NoUnit} /\ status \in {"DRAFT", "ACTIVE", "ARCHIVED"}
    /\ own \subseteq Units \X Units /\ inherited \subseteq Units \X Units
    /\ packs \subseteq [unit : Units, base : Units, active : BOOLEAN]
SetsOK == set \in [Owners -> Sets]
TxOK   == /\ replacing \in [Writers -> Replacements \cup {NoUnit}]
          /\ \A s \in Writers : Open(s) /\ replacing[s].entries # {} => replacing[s].base # NoUnit

\* Whoever began has seen a version that was there, and nothing else under that version since.
SeenOK(s) ==
    Open(s) =>
        LET now == set[replacing[s].owner] IN
        /\ replacing[s].seen.version < MaxVersion
        /\ replacing[s].seen.version <= now.version
        /\ replacing[s].seen.version = now.version => replacing[s].seen = now

Shape == TablesOK /\ SetsOK /\ TxOK /\ \A s \in Writers : SeenOK(s)

\* What holds the lock of a set holds it alone, and knows the set as it is.
Current(s)   ==
    Open(s) /\ replacing[s].at \in {"check", "commit"} => replacing[s].seen = set[replacing[s].owner]
Exclusive(o) == \A r, s \in Writers : Held(r, o) /\ Held(s, o) => r = s
Locking == (\A s \in Writers : Current(s)) /\ (\A o \in Owners : Exclusive(o))

-----------------------------------------------------------------------------
(* What the actions do to the open replacements.                           *)

\* Going on to another step changes the step of one replacement.
LEMMA GotoFacts ==
    ASSUME TxOK, NEW s \in Writers, Open(s), NEW pc \in Stages, Goto(s, pc)
    PROVE  /\ replacing' \in [Writers -> Replacements \cup {NoUnit}]
           /\ replacing[s] \in Replacements /\ replacing'[s] \in Replacements
           /\ replacing'[s].owner = replacing[s].owner /\ replacing'[s].seen = replacing[s].seen
           /\ replacing'[s].base = replacing[s].base /\ replacing'[s].entries = replacing[s].entries
           /\ replacing'[s].shared = replacing[s].shared /\ replacing'[s].at = pc
           /\ \A r \in Writers \ {s} : replacing'[r] = replacing[r]
<1>1. replacing[s] \in Replacements
    BY DEF TxOK, Open
<1>2. [replacing[s] EXCEPT !.at = pc] \in Replacements
    BY <1>1, Zenon DEF Replacements
<1> QED
    BY <1>1, <1>2 DEF TxOK, Goto, Replacements

\* Ending clears one replacement.
LEMMA EndFacts ==
    ASSUME TxOK, NEW s \in Writers, replacing' = [replacing EXCEPT ![s] = NoUnit]
    PROVE  /\ replacing' \in [Writers -> Replacements \cup {NoUnit}]
           /\ ~Open(s)'
           /\ \A r \in Writers \ {s} : replacing'[r] = replacing[r]
    BY DEF TxOK, Open

\* Beginning opens one replacement on what is committed.
LEMMA BeginFacts ==
    ASSUME TablesOK, SetsOK, TxOK, NEW s \in Writers, NEW o \in Owners, NEW entries \in SUBSET Units,
           BeginReplace(s, o, entries)
    PROVE  /\ replacing' \in [Writers -> Replacements \cup {NoUnit}]
           /\ replacing'[s] \in Replacements
           /\ replacing'[s].owner = o /\ replacing'[s].seen = set[o] /\ replacing'[s].entries = entries
           /\ replacing'[s].base = base /\ replacing'[s].shared = (set[Company].version > 0)
           /\ replacing'[s].at = IF o = Company THEN "claim" ELSE "validate"
           /\ \A r \in Writers \ {s} : replacing'[r] = replacing[r]
           /\ ~Open(s)
<1> DEFINE new == [owner |-> o, seen |-> set[o], entries |-> entries, base |-> base,
                   shared |-> set[Company].version > 0,
                   at |-> IF o = Company THEN "claim" ELSE "validate"]
<1>1. new \in Replacements
    BY DEF TablesOK, SetsOK, Replacements, Stages
<1> QED
    BY <1>1 DEF TxOK, BeginReplace

\* A commit writes what its replacement holds, over the set that its caller has seen.
LEMMA CommitFacts ==
    ASSUME Shape, Locking, NEW s \in Writers, CommitReplace(s)
    PROVE  /\ replacing[s] \in Replacements /\ Open(s)
           /\ replacing[s].seen = set[replacing[s].owner]
           /\ set' \in [Owners -> Sets]
           /\ \A o \in Owners \ {replacing[s].owner} : set'[o] = set[o]
           /\ set'[replacing[s].owner].version = set[replacing[s].owner].version + 1
           /\ set'[replacing[s].owner].shared = replacing[s].shared
           /\ set'[replacing[s].owner].rows = [unit : replacing[s].entries, base : {replacing[s].base}]
<1> DEFINE o == replacing[s].owner
           new == [version |-> set[o].version + 1, shared |-> replacing[s].shared,
                   rows |-> [unit : replacing[s].entries, base : {replacing[s].base}]]
<1>1. Open(s) /\ replacing[s] \in Replacements /\ replacing[s].at = "commit"
    BY DEF CommitReplace, At, Shape, TxOK, Open
<1>2. replacing[s].seen = set[o] /\ replacing[s].seen.version < MaxVersion
    BY <1>1 DEF Locking, Current, Shape, SeenOK
<1>3. set[o] \in Sets /\ set[o].version + 1 \in 0..MaxVersion
    BY <1>1, <1>2, PricingAssumption DEF Shape, SetsOK, Replacements, Sets
<1>4. new.rows \in SUBSET [unit : Units, base : Units]
    <2>1. replacing[s].entries \subseteq Units /\ replacing[s].base \in Units \cup {NoUnit}
        BY <1>1 DEF Replacements
    <2>2. replacing[s].entries # {} => replacing[s].base # NoUnit
        BY <1>1 DEF Shape, TxOK
    <2> QED
        BY <2>1, <2>2
<1>5. new \in Sets
    BY <1>1, <1>3, <1>4 DEF Replacements, Sets
<1>6. set' = [set EXCEPT ![o] = new]
    BY DEF CommitReplace
<1>7. o \in Owners
    BY <1>1 DEF Replacements
<1>9. /\ new.version = set[o].version + 1 /\ new.shared = replacing[s].shared
      /\ new.rows = [unit : replacing[s].entries, base : {replacing[s].base}]
    OBVIOUS
<1> HIDE DEF new
<1>8. set' \in [Owners -> Sets] /\ set'[o] = new /\ \A x \in Owners \ {o} : set'[x] = set[x]
    BY <1>5, <1>6, <1>7 DEF Shape, SetsOK
<1> QED
    BY <1>1, <1>2, <1>8, <1>9

-----------------------------------------------------------------------------
(* Shapes and locks are kept by every action.                              *)

Core == Shape /\ Locking

\* What changes neither a set nor a replacement keeps both as long as it keeps the tables.
LEMMA TablesKeep ==
    ASSUME Core, TablesOK', UNCHANGED <<set, replacing>>
    PROVE  Core'
    BY DEF Core, Shape, SetsOK, TxOK, Open, SeenOK, Locking, Current, Exclusive, Held

\* A step on the units keeps the core.
LEMMA UnitsKeep == Core /\ UnitStep => Core'
<1> SUFFICES ASSUME Core, UnitStep PROVE Core'
    OBVIOUS
<1>0. TablesOK
    BY DEF Core, Shape
<1>1. ASSUME NEW u \in Custom, CreateUnit(u) PROVE TablesOK' /\ UNCHANGED <<set, replacing>>
    BY <1>0, <1>1 DEF CreateUnit, TablesOK
<1>2. ASSUME NEW u \in Custom, RemoveUnit(u) PROVE TablesOK' /\ UNCHANGED <<set, replacing>>
    BY <1>0, <1>2 DEF RemoveUnit, TablesOK
<1> QED
    BY <1>1, <1>2, TablesKeep DEF UnitStep

\* A step on the variants keeps the core.
LEMMA VariantChangeKeeps == Core /\ VariantChange => Core'
<1> SUFFICES ASSUME Core, VariantChange PROVE Core'
    OBVIOUS
<1> USE DEF ChangeVariant
<1>0. TablesOK
    BY DEF Core, Shape
<1>1. ASSUME NEW u \in Units, SetBaseUom(u) PROVE TablesOK' /\ UNCHANGED <<set, replacing>>
    BY <1>0, <1>1 DEF SetBaseUom, TablesOK
<1>2. ASSUME NEW u \in Packed, CreatePack(u) PROVE TablesOK' /\ UNCHANGED <<set, replacing>>
    <2>1. [unit |-> u, base |-> base, active |-> TRUE] \in [unit : Units, base : Units, active : BOOLEAN]
        BY <1>0, <1>2, PricingAssumption DEF CreatePack, TablesOK
    <2> QED
        BY <1>0, <1>2, <2>1 DEF CreatePack, TablesOK
<1>3. ASSUME Activate \/ Archive PROVE TablesOK' /\ UNCHANGED <<set, replacing>>
    BY <1>0, <1>3 DEF Activate, Archive, TablesOK
<1>4. ASSUME NEW from \in SUBSET Units, ReplaceVariantConversions(from)
      PROVE  TablesOK' /\ UNCHANGED <<set, replacing>>
    BY <1>0, <1>4 DEF ReplaceVariantConversions, TablesOK
<1>5. ASSUME NEW p \in packs, RemovePack(p) \/ ReactivatePack(p)
      PROVE  TablesOK' /\ UNCHANGED <<set, replacing>>
    <2>1. /\ [p EXCEPT !.active = FALSE] \in [unit : Units, base : Units, active : BOOLEAN]
          /\ [p EXCEPT !.active = TRUE] \in [unit : Units, base : Units, active : BOOLEAN]
        BY <1>0, Zenon DEF TablesOK
    <2> QED
        BY <1>0, <1>5, <2>1 DEF RemovePack, ReactivatePack, TablesOK
<1> QED
    BY <1>1, <1>2, <1>3, <1>4, <1>5, TablesKeep DEF VariantChange

\* Replacing the conversions of a product keeps the core.
LEMMA ConversionsKeep ==
    ASSUME Core, NEW conversions \in Conversions, ReplaceProductConversions(conversions)
    PROVE  Core'
<1>1. TablesOK' /\ UNCHANGED <<set, replacing>>
    BY PricingAssumption DEF ReplaceProductConversions, Core, Shape, TablesOK
<1> QED
    BY <1>1, TablesKeep

\* A replacement that begins keeps the core.
LEMMA BeginReplaceKeeps ==
    ASSUME Core, NEW s \in Writers, NEW o \in Owners, NEW entries \in SUBSET Units,
           BeginReplace(s, o, entries)
    PROVE  Core'
<1> USE DEF Core, Shape
<1>1. UNCHANGED <<units, set>> /\ set[o].version < MaxVersion
         /\ (o = Company \/ entries # {} => base # NoUnit)
    BY DEF BeginReplace
<1>2. TablesOK' /\ SetsOK'
    BY <1>1 DEF TablesOK, SetsOK, units
<1>3. TxOK'
    BY <1>1, BeginFacts DEF TxOK, Open
<1>4. ASSUME NEW r \in Writers PROVE SeenOK(r)'
    BY <1>1, BeginFacts DEF SeenOK, Open, SetsOK, Sets
<1>5. ASSUME NEW r \in Writers PROVE Current(r)'
    BY <1>1, BeginFacts DEF Locking, Current, Open
<1>6. ASSUME NEW x \in Owners PROVE Exclusive(x)'
    BY <1>1, BeginFacts DEF Locking, Exclusive, Held, Open
<1> QED
    BY <1>2, <1>3, <1>4, <1>5, <1>6 DEF Locking

\* A step within a replacement; into "check" or "commit" only with the lock.
LEMMA GotoKeeps ==
    ASSUME Core, NEW s \in Writers, Open(s), NEW pc \in Stages, Goto(s, pc),
           pc \in {"check", "commit"} => replacing[s].at \in {"check", "commit"} \/ Matches(s)
    PROVE  Core'
<1> USE DEF Core, Shape
<1>1. UNCHANGED <<units, set>>
    BY DEF Goto
<1>2. TablesOK' /\ SetsOK'
    BY <1>1 DEF TablesOK, SetsOK, units
<1>3. TxOK'
    BY <1>1, GotoFacts DEF TxOK, Open
<1>4. ASSUME NEW r \in Writers PROVE SeenOK(r)'
    BY <1>1, GotoFacts DEF SeenOK, Open
<1>5. ASSUME NEW r \in Writers PROVE Current(r)'
    BY <1>1, GotoFacts DEF Locking, Current, Open, Matches, SeenOK
<1>6. ASSUME NEW x \in Owners PROVE Exclusive(x)'
    BY <1>1, GotoFacts DEF Locking, Exclusive, Held, Open, Matches, SetFree
<1> QED
    BY <1>2, <1>3, <1>4, <1>5, <1>6 DEF Locking

\* A replacement that commits keeps the core.
LEMMA CommitKeeps ==
    ASSUME Core, NEW s \in Writers, CommitReplace(s)
    PROVE  Core'
<1> USE DEF Core, Shape
<1>1. UNCHANGED units /\ replacing' = [replacing EXCEPT ![s] = NoUnit] /\ At(s, "commit")
    BY DEF CommitReplace
<1>2. TablesOK' /\ SetsOK'
    BY <1>1, CommitFacts DEF TablesOK, SetsOK, units
<1>3. TxOK'
    BY <1>1, EndFacts DEF TxOK, Open
<1>4. ASSUME NEW r \in Writers PROVE SeenOK(r)' /\ Current(r)'
    <2>1. SUFFICES ASSUME Open(r)', r # s PROVE SeenOK(r)' /\ Current(r)'
        BY <1>1, EndFacts DEF SeenOK, Current
    <2>2. replacing'[r] = replacing[r] /\ Open(r) /\ replacing[r] \in Replacements
        BY <1>1, <2>1, EndFacts DEF Open, TxOK
    <2>3. CASE replacing[r].owner # replacing[s].owner
        BY <2>2, <2>3, CommitFacts DEF SeenOK, Current, Open, Locking, Replacements
    <2>4. CASE replacing[r].owner = replacing[s].owner
        <3>1. replacing[r].at \notin {"check", "commit"}
            BY <1>1, <2>1, <2>2, <2>4 DEF Locking, Exclusive, Held, At, Replacements
        <3>2. SeenOK(r)'
            BY <2>2, <2>4, CommitFacts DEF SeenOK, Open, Replacements, Sets, SetsOK
        <3> QED
            BY <2>2, <3>1, <3>2 DEF Current, Open
    <2> QED
        BY <2>3, <2>4
<1>5. ASSUME NEW x \in Owners PROVE Exclusive(x)'
    BY <1>1, EndFacts DEF Locking, Exclusive, Held, Open
<1> QED
    BY <1>2, <1>3, <1>4, <1>5 DEF Locking

\* A replacement that is rolled back keeps the core.
LEMMA AbandonKeeps ==
    ASSUME Core, NEW s \in Writers, AbandonReplace(s)
    PROVE  Core'
<1> USE DEF Core, Shape
<1>1. UNCHANGED <<units, set>> /\ replacing' = [replacing EXCEPT ![s] = NoUnit]
    BY DEF AbandonReplace
<1>2. TablesOK' /\ SetsOK'
    BY <1>1 DEF TablesOK, SetsOK, units
<1>3. TxOK'
    BY <1>1, EndFacts DEF TxOK, Open
<1>4. ASSUME NEW r \in Writers PROVE SeenOK(r)' /\ Current(r)'
    BY <1>1, EndFacts DEF SeenOK, Current, Open, Locking
<1>5. ASSUME NEW x \in Owners PROVE Exclusive(x)'
    BY <1>1, EndFacts DEF Locking, Exclusive, Held, Open
<1> QED
    BY <1>2, <1>3, <1>4, <1>5 DEF Locking

\* Every step of a replacement keeps the core.
LEMMA ReplaceKeeps == ASSUME Core, NEW s \in Writers, ReplaceStep(s) PROVE Core'
<1>1. ASSUME ValidateOverride(s) PROVE Core'
    BY <1>1, GotoKeeps DEF ValidateOverride, At, Stages
<1>2. ASSUME ClaimCompany(s) PROVE Core'
    BY <1>2, GotoKeeps DEF ClaimCompany, At, Stages
<1>3. ASSUME ClaimBranch(s) PROVE Core'
    BY <1>3, GotoKeeps DEF ClaimBranch, At, Stages
<1>4. ASSUME CheckOverrides(s) PROVE Core'
    BY <1>4, GotoKeeps DEF CheckOverrides, At, Stages
<1> QED
    BY <1>1, <1>2, <1>3, <1>4, BeginReplaceKeeps, CommitKeeps, AbandonKeeps DEF ReplaceStep

\* The core holds at first.
LEMMA CoreInit == PricingInit => Core
<1> SUFFICES ASSUME PricingInit PROVE Core
    OBVIOUS
<1>1. TablesOK
    BY DEF PricingInit, TablesOK
<1>2. SetsOK
    BY PricingAssumption DEF PricingInit, SetsOK, Sets, Absent
<1>3. \A s \in Writers : ~Open(s)
    BY DEF PricingInit, Open
<1> QED
    BY <1>1, <1>2, <1>3 DEF Core, Shape, TxOK, SeenOK, Locking, Current, Exclusive, Held, PricingInit

\* Every step keeps it.
LEMMA CoreStep == Core /\ [PricingNext]_pricingVars => Core'
<1> SUFFICES ASSUME Core, [PricingNext]_pricingVars PROVE Core'
    OBVIOUS
<1>1. CASE UNCHANGED pricingVars
    BY <1>1, TablesKeep DEF pricingVars, Core, Shape, TablesOK
<1> QED
    BY <1>1, UnitsKeep, VariantChangeKeeps, ConversionsKeep, ReplaceKeeps DEF PricingNext

\* It always holds.
LEMMA CoreHolds == PricingSpec => []Core
    BY CoreInit, CoreStep, PTL DEF PricingSpec

\* The variables keep their shapes, whatever is in flight: no replacement runs past the version it saw.
THEOREM PricingTypeCorrect == PricingSpec => []PricingTypeOK
<1>1. Core => PricingTypeOK
    BY DEF Core, Shape, TablesOK, SetsOK, TxOK, PricingTypeOK, Open, Replacements, Stages
<1> QED
    BY <1>1, CoreHolds, PTL

-----------------------------------------------------------------------------
(* Codes.                                                                  *)

\* What an action writes of a set: nothing, or the set of the replacement that it commits.
LEMMA WhoWrites ==
    ASSUME Core, [PricingNext]_pricingVars, set' # set
    PROVE  \E s \in Writers : CommitReplace(s)
    BY DEF PricingNext, pricingVars, UnitStep, CreateUnit, RemoveUnit, VariantChange, ChangeVariant, SetBaseUom,
           CreatePack, Activate, Archive, ReplaceVariantConversions, RemovePack, ReactivatePack,
           ReplaceProductConversions, ReplaceStep, BeginReplace, Goto, ValidateOverride, ClaimCompany,
           ClaimBranch, CheckOverrides, AbandonReplace

\* branch-pricing.repository.ts, BD-4: no edit of prices is lost.  A set is only ever replaced by a
\* transaction whose caller saw exactly what it replaces, whatever was in flight, and versions grow.
THEOREM NoLostEdit == PricingSpec => ReplacesWhatWasSeen
<1> DEFINE Owned == \A o \in Owners : set'[o] # set[o] =>
                       /\ \E s \in Writers : Open(s) /\ replacing[s].owner = o /\ replacing[s].seen = set[o]
                       /\ set'[o].version > set[o].version
<1>1. Core /\ [PricingNext]_pricingVars => Owned
    <2> SUFFICES ASSUME Core, [PricingNext]_pricingVars, NEW o \in Owners, set'[o] # set[o]
                 PROVE  /\ \E s \in Writers : Open(s) /\ replacing[s].owner = o /\ replacing[s].seen = set[o]
                        /\ set'[o].version > set[o].version
        OBVIOUS
    <2>1. PICK s \in Writers : CommitReplace(s)
        BY WhoWrites
    <2>2. /\ replacing[s].owner = o /\ Open(s) /\ replacing[s].seen = set[o]
          /\ set'[o].version = set[o].version + 1
        BY <2>1, CommitFacts DEF Core
    <2>3. set[o].version \in Nat
        BY PricingAssumption DEF Core, Shape, SetsOK, Sets
    <2> QED
        BY <2>2, <2>3
<1> QED
    BY <1>1, CoreHolds, PTL DEF PricingSpec, ReplacesWhatWasSeen

\* A replacement about to commit holds units that are there.
UnitsThere == \A s \in Writers : At(s, "commit") => replacing[s].entries \subseteq Known
CodesInv   == EveryCodeIsRegistered /\ UnitsThere

\* A commit sets the codes of a set to those of its replacement.
LEMMA CodedFacts ==
    ASSUME Core, NEW s \in Writers, CommitReplace(s)
    PROVE  /\ Coded(set'[replacing[s].owner].rows) = replacing[s].entries
           /\ \A o \in Owners \ {replacing[s].owner} : Coded(set'[o].rows) = Coded(set[o].rows)
           /\ \A r \in set'[replacing[s].owner].rows : r.base = replacing[s].base
<1>1. set'[replacing[s].owner].rows = [unit : replacing[s].entries, base : {replacing[s].base}]
    BY CommitFacts DEF Core
<1>2. ASSUME NEW u \in replacing[s].entries
      PROVE  u \in Coded([unit : replacing[s].entries, base : {replacing[s].base}])
    <2> DEFINE row == [unit |-> u, base |-> replacing[s].base]
    <2>1. row \in [unit : replacing[s].entries, base : {replacing[s].base}] /\ row.unit = u
        OBVIOUS
    <2> HIDE DEF row
    <2> QED
        BY <2>1 DEF Coded
<1> QED
    BY <1>1, <1>2, CommitFacts DEF Core, Coded

\* What changes no table but units that are new or unused keeps the codes.
LEMMA CodesUnits ==
    ASSUME Core, CodesInv, UnitStep
    PROVE  CodesInv'
<1>1. UNCHANGED <<base, own, inherited, packs, set, replacing>>
    BY DEF UnitStep, CreateUnit, RemoveUnit
<1>2. CASE \E u \in Custom : CreateUnit(u)
    <2>1. Known \subseteq Known'
        BY <1>2 DEF CreateUnit, Known
    <2> QED
        BY <1>1, <2>1 DEF CodesInv, EveryCodeIsRegistered, UnitsThere, At, Open
<1>3. CASE \E u \in Custom : RemoveUnit(u)
    <2>1. PICK u \in Custom : RemoveUnit(u)
        BY <1>3
    <2>2. Known' = Known \ {u}
        BY <2>1, PricingAssumption DEF RemoveUnit, Known
    <2>3. u # base /\ u \notin UNION {{c[1], c[2]} : c \in own \cup inherited}
             /\ (\A p \in packs : p.unit # u) /\ (\A o \in Owners : u \notin Coded(set[o].rows))
        BY <2>1 DEF RemoveUnit, InUse
    <2>4. \A s \in Writers : At(s, "commit") => u \notin replacing[s].entries
        BY <2>1 DEF RemoveUnit, UnitFree
    <2>5. EveryCodeIsRegistered'
        <3>1. base' \in Known' \cup {NoUnit}
            BY <1>1, <2>2, <2>3 DEF CodesInv, EveryCodeIsRegistered
        <3>2. (own \cup inherited)' \subseteq (Known \X Known)'
            <4>1. \A c \in own \cup inherited : c \in Known \X Known /\ c[1] # u /\ c[2] # u
                BY <2>3 DEF CodesInv, EveryCodeIsRegistered
            <4> QED
                BY <1>1, <2>2, <4>1
        <3> QED
            BY <1>1, <2>2, <2>3, <3>1, <3>2 DEF CodesInv, EveryCodeIsRegistered
    <2> QED
        BY <1>1, <2>2, <2>4, <2>5 DEF CodesInv, UnitsThere, At, Open
<1> QED
    BY <1>2, <1>3 DEF UnitStep

\* The base unit, a conversion or a pack is only given codes of units there are.
LEMMA CodesVariant ==
    ASSUME Core, CodesInv, VariantChange
    PROVE  CodesInv'
<1> USE DEF ChangeVariant
<1>0. /\ UNCHANGED <<registered, inherited, set, replacing>>
      /\ TablesOK
    BY DEF VariantChange, SetBaseUom, CreatePack, Activate, Archive, ReplaceVariantConversions, RemovePack,
           ReactivatePack, Core, Shape
<1>1. ASSUME base' \in Known \cup {NoUnit}, own' \subseteq Known \X Known,
             \A p \in packs' : p.unit \in Known
      PROVE  CodesInv'
    BY <1>0, <1>1 DEF CodesInv, EveryCodeIsRegistered, UnitsThere, At, Open, Known
<1>2. base \in Known \cup {NoUnit} /\ own \subseteq Known \X Known /\ \A p \in packs : p.unit \in Known
    BY DEF CodesInv, EveryCodeIsRegistered
<1>3. ASSUME NEW u \in Units, SetBaseUom(u) PROVE CodesInv'
    BY <1>1, <1>2, <1>3 DEF SetBaseUom
<1>4. ASSUME NEW u \in Packed, CreatePack(u) PROVE CodesInv'
    <2>1. \A p \in packs' : p \in packs \/ p = [unit |-> u, base |-> base, active |-> TRUE]
        BY <1>4 DEF CreatePack
    <2>2. \A p \in packs' : p.unit \in Known
        BY <1>2, <1>4, <2>1 DEF CreatePack
    <2> QED
        BY <1>1, <1>2, <1>4, <2>2 DEF CreatePack
<1>5. ASSUME Activate \/ Archive PROVE CodesInv'
    BY <1>1, <1>2, <1>5 DEF Activate, Archive
<1>6. ASSUME NEW from \in SUBSET Units, ReplaceVariantConversions(from) PROVE CodesInv'
    BY <1>0, <1>1, <1>2, <1>6 DEF ReplaceVariantConversions
<1>7. ASSUME NEW p \in packs, RemovePack(p) \/ ReactivatePack(p) PROVE CodesInv'
    <2>1. p \in [unit : Units, base : Units, active : BOOLEAN]
        BY <1>0 DEF TablesOK
    <2>2. [p EXCEPT !.active = FALSE].unit = p.unit /\ [p EXCEPT !.active = TRUE].unit = p.unit
        BY <2>1
    <2> QED
        BY <1>1, <1>2, <1>7, <2>2 DEF RemovePack, ReactivatePack
<1> QED
    BY <1>3, <1>4, <1>5, <1>6, <1>7 DEF VariantChange

\* The product's conversions are between units there are.
LEMMA CodesProduct ==
    ASSUME Core, CodesInv, NEW conversions \in Conversions, ReplaceProductConversions(conversions)
    PROVE  CodesInv'
<1>1. UNCHANGED <<registered, base, own, packs, set, replacing>>
    BY DEF ReplaceProductConversions
<1>2. conversions \subseteq Units \X Units
    BY PricingAssumption
<1>3. conversions \subseteq Known \X Known
    BY <1>2 DEF ReplaceProductConversions
<1> QED
    BY <1>1, <1>3 DEF CodesInv, EveryCodeIsRegistered, UnitsThere, At, Open, Known,
                      ReplaceProductConversions

\* A replacement has locked the units it writes.
LEMMA CodesReplace ==
    ASSUME Core, CodesInv, NEW s \in Writers, ReplaceStep(s)
    PROVE  CodesInv'
<1>0. TxOK /\ TablesOK /\ SetsOK
    BY DEF Core, Shape
<1>1. ASSUME UNCHANGED <<units, set>>, UnitsThere' PROVE CodesInv'
    BY <1>1 DEF CodesInv, EveryCodeIsRegistered, units, Known
<1>2. ASSUME NEW o \in Owners, NEW entries \in SUBSET Units, BeginReplace(s, o, entries) PROVE CodesInv'
    <2>1. UNCHANGED <<units, set>>
        BY <1>2 DEF BeginReplace
    <2>2. UnitsThere'
        BY <1>0, <1>2, <2>1, BeginFacts DEF UnitsThere, At, Open, units, Known, CodesInv
    <2> QED
        BY <1>1, <2>1, <2>2
<1>3. ASSUME NEW pc \in Stages, Open(s), Goto(s, pc), pc = "commit" => LockUnits(s) PROVE CodesInv'
    <2>1. UNCHANGED <<units, set>>
        BY <1>3 DEF Goto
    <2>2. UnitsThere'
        BY <1>0, <1>3, <2>1, GotoFacts DEF UnitsThere, At, Open, units, Known, CodesInv, LockUnits
    <2> QED
        BY <1>1, <2>1, <2>2
<1>4. ASSUME replacing' = [replacing EXCEPT ![s] = NoUnit], UNCHANGED units PROVE UnitsThere'
    BY <1>0, <1>4, EndFacts DEF UnitsThere, At, Open, units, Known, CodesInv
<1>5. ASSUME CommitReplace(s) PROVE CodesInv'
    <2>1. /\ UNCHANGED units /\ replacing' = [replacing EXCEPT ![s] = NoUnit]
          /\ replacing[s].entries \subseteq Known
        BY <1>5 DEF CommitReplace, CodesInv, UnitsThere
    <2>2. \A o \in Owners : Coded(set'[o].rows) \subseteq Known
        BY <1>5, <2>1, CodedFacts DEF CodesInv, EveryCodeIsRegistered
    <2> QED
        BY <1>4, <2>1, <2>2 DEF CodesInv, EveryCodeIsRegistered, units, Known
<1>6. ASSUME AbandonReplace(s) PROVE CodesInv'
    BY <1>1, <1>4, <1>6 DEF AbandonReplace
<1> QED
    BY <1>2, <1>3, <1>5, <1>6 DEF ReplaceStep, ValidateOverride, ClaimCompany, ClaimBranch, CheckOverrides,
                                  At, Stages

\* uom.repository.ts, FINAL CORRECTION 2: no unit goes while something refers to its code or is about to,
\* for any number of writers, units and branches, although no foreign key says so.
THEOREM UnitCodesHold == PricingSpec => []EveryCodeIsRegistered
<1>1. PricingInit => CodesInv
    <2> SUFFICES ASSUME PricingInit PROVE CodesInv
        OBVIOUS
    <2>1. \A o \in Owners : Coded(set[o].rows) = {}
        BY DEF PricingInit, Absent, Coded
    <2> QED
        BY <2>1 DEF PricingInit, CodesInv, EveryCodeIsRegistered, UnitsThere, At, Open
<1>2. Core /\ CodesInv /\ [PricingNext]_pricingVars => CodesInv'
    <2> SUFFICES ASSUME Core, CodesInv, [PricingNext]_pricingVars PROVE CodesInv'
        OBVIOUS
    <2>1. CASE UNCHANGED pricingVars
        BY <2>1 DEF pricingVars, CodesInv, EveryCodeIsRegistered, UnitsThere, At, Open, Known
    <2> QED
        BY <2>1, CodesUnits, CodesVariant, CodesProduct, CodesReplace DEF PricingNext
<1>3. CodesInv => EveryCodeIsRegistered
    BY DEF CodesInv
<1> QED
    BY <1>1, <1>2, <1>3, CoreHolds, PTL DEF PricingSpec

-----------------------------------------------------------------------------
(* The base unit.                                                          *)

\* An open replacement has read the base unit as it is.
BaseRead == \A s \in Writers : Open(s) => replacing[s].base = base
BaseInv  == BaseIsFrozen /\ BaseRead

\* The base unit changes only where nothing refers to it.
LEMMA BaseVariant ==
    ASSUME Core, BaseInv, VariantChange
    PROVE  BaseInv'
<1> USE DEF ChangeVariant
<1>0. /\ UNCHANGED <<registered, inherited, set, replacing>> /\ VariantUnshared
      /\ TablesOK
    BY DEF VariantChange, SetBaseUom, CreatePack, Activate, Archive, ReplaceVariantConversions, RemovePack,
           ReactivatePack, Core, Shape
<1>1. ASSUME base' = base, \A c \in own' : c[2] = base, \A p \in packs' : p.base = base
      PROVE  BaseInv'
    BY <1>0, <1>1 DEF BaseInv, BaseIsFrozen, BaseRead, Open
<1>2. (\A c \in own : c[2] = base) /\ \A p \in packs : p.base = base
    BY DEF BaseInv, BaseIsFrozen
<1>3. ASSUME NEW u \in Units, SetBaseUom(u) PROVE BaseInv'
    BY <1>0, <1>3 DEF SetBaseUom, BaseInv, BaseIsFrozen, BaseRead, VariantUnshared, Open
<1>4. ASSUME NEW u \in Packed, CreatePack(u) PROVE BaseInv'
    <2>1. \A p \in packs' : p \in packs \/ p = [unit |-> u, base |-> base, active |-> TRUE]
        BY <1>4 DEF CreatePack
    <2>2. \A p \in packs' : p.base = base
        BY <1>2, <2>1
    <2> QED
        BY <1>1, <1>2, <1>4, <2>2 DEF CreatePack
<1>5. ASSUME Activate \/ Archive PROVE BaseInv'
    BY <1>1, <1>2, <1>5 DEF Activate, Archive
<1>6. ASSUME NEW from \in SUBSET Units, ReplaceVariantConversions(from) PROVE BaseInv'
    BY <1>1, <1>2, <1>6 DEF ReplaceVariantConversions
<1>7. ASSUME NEW p \in packs, RemovePack(p) \/ ReactivatePack(p) PROVE BaseInv'
    <2>1. p \in [unit : Units, base : Units, active : BOOLEAN]
        BY <1>0 DEF TablesOK
    <2>2. [p EXCEPT !.active = FALSE].base = p.base /\ [p EXCEPT !.active = TRUE].base = p.base
        BY <2>1
    <2> QED
        BY <1>1, <1>2, <1>7, <2>2 DEF RemovePack, ReactivatePack
<1> QED
    BY <1>3, <1>4, <1>5, <1>6, <1>7 DEF VariantChange

\* A replacement shares the variant's row from its first step to its last.
LEMMA BaseReplace ==
    ASSUME Core, BaseInv, NEW s \in Writers, ReplaceStep(s)
    PROVE  BaseInv'
<1>0. TxOK /\ TablesOK /\ SetsOK
    BY DEF Core, Shape
<1>1. ASSUME UNCHANGED <<units, set>>, BaseRead' PROVE BaseInv'
    BY <1>1 DEF BaseInv, BaseIsFrozen, units
<1>2. ASSUME NEW o \in Owners, NEW entries \in SUBSET Units, BeginReplace(s, o, entries) PROVE BaseInv'
    <2>1. UNCHANGED <<units, set>>
        BY <1>2 DEF BeginReplace
    <2>2. BaseRead'
        BY <1>0, <1>2, <2>1, BeginFacts DEF BaseRead, Open, units, BaseInv
    <2> QED
        BY <1>1, <2>1, <2>2
<1>3. ASSUME NEW pc \in Stages, Open(s), Goto(s, pc) PROVE BaseInv'
    <2>1. UNCHANGED <<units, set>>
        BY <1>3 DEF Goto
    <2>2. BaseRead'
        BY <1>0, <1>3, <2>1, GotoFacts DEF BaseRead, Open, units, BaseInv
    <2> QED
        BY <1>1, <2>1, <2>2
<1>4. ASSUME replacing' = [replacing EXCEPT ![s] = NoUnit], UNCHANGED units PROVE BaseRead'
    BY <1>0, <1>4, EndFacts DEF BaseRead, Open, units, BaseInv
<1>5. ASSUME CommitReplace(s) PROVE BaseInv'
    <2>1. /\ UNCHANGED units /\ replacing' = [replacing EXCEPT ![s] = NoUnit]
          /\ Open(s) /\ replacing[s].base = base
        BY <1>5 DEF CommitReplace, At, BaseInv, BaseRead
    <2>2. \A o \in Owners : \A r \in set'[o].rows : r.base = base
        BY <1>5, <2>1, CodedFacts, CommitFacts DEF BaseInv, BaseIsFrozen, Core
    <2> QED
        BY <1>4, <2>1, <2>2 DEF BaseInv, BaseIsFrozen, units
<1>6. ASSUME AbandonReplace(s) PROVE BaseInv'
    BY <1>1, <1>4, <1>6 DEF AbandonReplace
<1> QED
    BY <1>2, <1>3, <1>5, <1>6 DEF ReplaceStep, ValidateOverride, ClaimCompany, ClaimBranch, CheckOverrides,
                                  At, Stages

\* variant.repository.ts, Inv-1: a price, a conversion and a pack mean the base unit they were agreed
\* under, for any number of writers that read it before it might change.
THEOREM BaseHolds == PricingSpec => []BaseIsFrozen
<1>1. PricingInit => BaseInv
    BY DEF PricingInit, Absent, BaseInv, BaseIsFrozen, BaseRead, Open
<1>2. Core /\ BaseInv /\ [PricingNext]_pricingVars => BaseInv'
    <2> SUFFICES ASSUME Core, BaseInv, [PricingNext]_pricingVars PROVE BaseInv'
        OBVIOUS
    <2>1. CASE UNCHANGED pricingVars
        BY <2>1 DEF pricingVars, BaseInv, BaseIsFrozen, BaseRead, Open
    <2>2. CASE UnitStep
        BY <2>2 DEF UnitStep, CreateUnit, RemoveUnit, BaseInv, BaseIsFrozen, BaseRead, Open
    <2>3. CASE \E conversions \in Conversions : ReplaceProductConversions(conversions)
        BY <2>3 DEF ReplaceProductConversions, BaseInv, BaseIsFrozen, BaseRead, Open
    <2> QED
        BY <2>1, <2>2, <2>3, BaseVariant, BaseReplace DEF PricingNext
<1>3. BaseInv => BaseIsFrozen
    BY DEF BaseInv
<1> QED
    BY <1>1, <1>2, <1>3, CoreHolds, PTL DEF PricingSpec

-----------------------------------------------------------------------------
(* Overrides.                                                              *)

Price(o) == Coded(set[o].rows)

\* A branch that found the company's set shares it: nobody else holds it until the branch is through.
SharesHold == \A r, s \in Writers : Held(r, Company) => ~Shared(s)

\* Past its validation such a branch holds units that the company prices; and a company past its check
\* holds those that such branches override.
ValidatedOK(s) ==
    Shared(s) /\ replacing[s].at \in {"claim", "commit"} => replacing[s].entries \subseteq Price(Company)
CheckedOK(s) ==
    At(s, "commit") /\ replacing[s].owner = Company =>
        \A b \in Branches : set[b].shared => Price(b) \subseteq replacing[s].entries

PricedInv ==
    /\ OverridesArePriced /\ SharesHold
    /\ \A s \in Writers : ValidatedOK(s) /\ CheckedOK(s)
    /\ \A s \in Writers : Shared(s) => set[Company].version > 0
    /\ \A s \in Writers : At(s, "check") => replacing[s].owner = Company

\* A step on the tables keeps the overrides priced.
LEMMA PricedTables ==
    ASSUME PricedInv, UNCHANGED <<set, replacing>>
    PROVE  PricedInv'
    BY DEF PricedInv, OverridesArePriced, SharesHold, ValidatedOK, CheckedOK, Price, Held, Shared, Open, At

\* So does a step of a replacement.
LEMMA PricedReplace ==
    ASSUME Core, PricedInv, NEW s \in Writers, ReplaceStep(s)
    PROVE  PricedInv'
<1>0. TxOK /\ TablesOK /\ SetsOK /\ Company \in Owners
    BY DEF Core, Shape, Owners
<1> USE DEF PricedInv, OverridesArePriced, SharesHold, ValidatedOK, CheckedOK, Price, Held, Shared, Open, At
<1>2. ASSUME NEW o \in Owners, NEW entries \in SUBSET Units, BeginReplace(s, o, entries) PROVE PricedInv'
    <2>1. set' = set /\ ((o # Company /\ set[Company].version > 0) => \A r \in Writers : ~Held(r, Company))
        BY <1>2 DEF BeginReplace
    <2>2. Shared(s)' => set[Company].version > 0 /\ o # Company
        BY <1>0, <1>2, BeginFacts
    <2>3. ~Held(s, Company)' /\ ~(replacing[s].at \in {"check", "commit"})'
              /\ (Shared(s) => replacing[s].at \notin {"claim", "commit"})'
        BY <1>0, <1>2, BeginFacts
    <2>4. \A r \in Writers \ {s} : replacing'[r] = replacing[r]
        BY <1>0, <1>2, BeginFacts
    <2>5. SharesHold'
        BY <2>1, <2>2, <2>3, <2>4
    <2> QED
        BY <2>1, <2>2, <2>3, <2>4, <2>5
<1>3. ASSUME ValidateOverride(s) PROVE PricedInv'
    <2>1. /\ Goto(s, "claim") /\ set' = set /\ replacing[s].at = "validate"
          /\ replacing[s].entries \subseteq Price(Company)
        BY <1>3 DEF ValidateOverride, Goto
    <2> QED
        BY <1>0, <1>3, <2>1, GotoFacts DEF Stages, ValidateOverride
<1>4. ASSUME ClaimBranch(s) PROVE PricedInv'
    <2>1. Goto(s, "commit") /\ set' = set /\ replacing[s].at = "claim" /\ replacing[s].owner # Company
        BY <1>4 DEF ClaimBranch, Goto
    <2> QED
        BY <1>0, <1>4, <2>1, GotoFacts DEF Stages, ClaimBranch
<1>5. ASSUME ClaimCompany(s) PROVE PricedInv'
    <2>1. Goto(s, "check") /\ set' = set /\ replacing[s].at = "claim" /\ replacing[s].owner = Company
             /\ \A r \in Writers : ~Shared(r)
        BY <1>5 DEF ClaimCompany, Goto, Matches, SetFree
    <2> QED
        BY <1>0, <1>5, <2>1, GotoFacts DEF Stages, ClaimCompany
<1>6. ASSUME CheckOverrides(s) PROVE PricedInv'
    <2>1. Goto(s, "commit") /\ set' = set /\ replacing[s].at = "check"
             /\ \A b \in Branches : Price(b) \cap Price(Company) \subseteq replacing[s].entries
        BY <1>6 DEF CheckOverrides, Goto
    <2>2. \A b \in Branches : set[b].shared => Price(b) \subseteq replacing[s].entries
        BY <2>1
    <2> QED
        BY <1>0, <1>6, <2>1, <2>2, GotoFacts DEF Stages, CheckOverrides
<1>7. ASSUME CommitReplace(s) PROVE PricedInv'
    <2>1. replacing' = [replacing EXCEPT ![s] = NoUnit] /\ At(s, "commit") /\ replacing[s] \in Replacements
        BY <1>7, CommitFacts DEF Core, CommitReplace
    <2>2. ~Open(s)' /\ \A r \in Writers \ {s} : replacing'[r] = replacing[r]
        BY <1>0, <2>1, EndFacts
    <2> PICK o \in Owners : o = replacing[s].owner
        BY <2>1 DEF Replacements
    <2>3. /\ Price(o)' = replacing[s].entries /\ set'[o].shared = replacing[s].shared
          /\ set'[o].version = set[o].version + 1
          /\ \A x \in Owners \ {o} : set'[x] = set[x]
        BY <1>7, CodedFacts, CommitFacts DEF Core
    <2>4. SharesHold' /\ \A r \in Writers : (At(r, "check") => replacing[r].owner = Company)'
        BY <2>2
    <2>5. ASSUME NEW r \in Writers, Shared(r)' PROVE (set[Company].version > 0)'
        <3>1. Shared(r) /\ set[Company].version > 0
            BY <2>2, <2>5
        <3>2. set[Company].version \in Nat
            BY <1>0, PricingAssumption DEF SetsOK, Sets
        <3> QED
            BY <1>0, <2>3, <3>1, <3>2
    <2>6. CASE o = Company
        <3>1. \A r \in Writers : ~Shared(r)
            BY <2>1, <2>6
        <3>2. \A r \in Writers \ {s} : ~Held(r, Company)
            BY <1>0, <2>1, <2>6 DEF Core, Locking, Exclusive
        <3>3. \A b \in Branches : set'[b] = set[b]
            BY <2>3, <2>6, PricingAssumption DEF Owners
        <3>4. OverridesArePriced'
            <4>1. \A b \in Branches : set[b].shared => Price(b) \subseteq replacing[s].entries
                BY <2>1, <2>6
            <4> QED
                BY <2>3, <2>6, <3>3, <4>1
        <3>5. \A r \in Writers : ValidatedOK(r)' /\ CheckedOK(r)'
            BY <2>2, <3>1, <3>2
        <3> QED
            BY <2>4, <2>5, <3>4, <3>5
    <2>7. CASE o # Company
        <3>1. set'[Company] = set[Company]
            BY <1>0, <2>3, <2>7
        <3>2. replacing[s].shared => replacing[s].entries \subseteq Price(Company)
            BY <2>1, <2>7
        <3>3. OverridesArePriced'
            <4>1. ASSUME NEW b \in Branches, set'[b].shared PROVE Price(b)' \subseteq Price(Company)'
                BY <2>3, <3>1, <3>2, <4>1 DEF Owners
            <4> QED
                BY <4>1
        <3>4. ASSUME NEW r \in Writers PROVE ValidatedOK(r)'
            BY <2>2, <3>1
        <3>5. ASSUME NEW r \in Writers PROVE CheckedOK(r)'
            <4>1. SUFFICES ASSUME At(r, "commit")', replacing'[r].owner = Company,
                                  NEW b \in Branches, set'[b].shared
                           PROVE  Price(b)' \subseteq replacing'[r].entries
                OBVIOUS
            <4>2. replacing'[r] = replacing[r] /\ Held(r, Company) /\ CheckedOK(r)
                BY <2>2, <4>1
            <4>3. ~replacing[s].shared
                BY <2>1, <2>7, <4>2
            <4>4. b # o
                BY <2>3, <4>1, <4>3
            <4> QED
                BY <2>3, <4>1, <4>2, <4>4 DEF Owners
        <3> QED
            BY <2>4, <2>5, <3>3, <3>4, <3>5
    <2> QED
        BY <2>6, <2>7
<1>8. ASSUME AbandonReplace(s) PROVE PricedInv'
    <2>1. set' = set /\ replacing' = [replacing EXCEPT ![s] = NoUnit]
        BY <1>8 DEF AbandonReplace
    <2> QED
        BY <1>0, <2>1, EndFacts
<1> QED
    BY <1>2, <1>3, <1>4, <1>5, <1>6, <1>7, <1>8 DEF ReplaceStep

\* branch-pricing.repository.ts, BD-1: whatever a branch overrides the company prices, for any number of
\* branches and writers, if the branch found the company's set when it began.
THEOREM OverridesHold == PricingSpec => []OverridesArePriced
<1>1. PricingInit => PricedInv
    <2> SUFFICES ASSUME PricingInit PROVE PricedInv
        OBVIOUS
    <2>1. (\A s \in Writers : ~Open(s)) /\ \A b \in Branches : Price(b) = {}
        BY DEF PricingInit, Open, Price, Coded, Absent, Owners
    <2> QED
        BY <2>1 DEF PricedInv, OverridesArePriced, SharesHold, ValidatedOK, CheckedOK, Held, Shared, At, Price
<1>2. Core /\ PricedInv /\ [PricingNext]_pricingVars => PricedInv'
    <2> SUFFICES ASSUME Core, PricedInv, [PricingNext]_pricingVars PROVE PricedInv'
        OBVIOUS
    <2>1. CASE UNCHANGED pricingVars
        BY <2>1, PricedTables DEF pricingVars
    <2>2. CASE UnitStep
        BY <2>2, PricedTables DEF UnitStep, CreateUnit, RemoveUnit
    <2>3. CASE VariantChange
        BY <2>3, PricedTables DEF VariantChange, ChangeVariant, SetBaseUom, CreatePack, Activate, Archive,
                                  ReplaceVariantConversions, RemovePack, ReactivatePack
    <2>4. CASE \E conversions \in Conversions : ReplaceProductConversions(conversions)
        BY <2>4, PricedTables DEF ReplaceProductConversions
    <2> QED
        BY <2>1, <2>2, <2>3, <2>4, PricedReplace DEF PricingNext
<1>3. PricedInv => OverridesArePriced
    BY DEF PricedInv
<1> QED
    BY <1>1, <1>2, <1>3, CoreHolds, PTL DEF PricingSpec
=============================================================================
