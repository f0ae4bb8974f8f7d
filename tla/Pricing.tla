------------------------------ MODULE Pricing ------------------------------
(***************************************************************************)
(* What a variant costs, and in which units                                *)
(* (apps/api/src/modules/catalog): the tenant's own units of measure, the  *)
(* base unit of a variant, conversions, the packs its barcodes stand for,  *)
(* the prices of the company and the branches' overrides.                  *)
(*                                                                         *)
(* No foreign key leads from a unit's code to its row, from an override to *)
(* the company's price, or from a price to the base unit it was agreed     *)
(* under.  Row locks alone keep them together.  A change that takes one    *)
(* such lock, and the locks on units, is one step.  Replacing a set of     *)
(* prices is a transaction of several: it takes its locks one by one,      *)
(* reads what is committed then, and takes effect when it commits.         *)
(***************************************************************************)
EXTENDS Naturals, FiniteSets

CONSTANTS
    Writers,       \* transactions that replace prices at a time
    Branches,      \* branches of the company
    Company,       \* the company, the owner of the prices that branches override
    Custom,        \* units a tenant may register
    Builtin,       \* units every tenant has
    Family,        \* the family of a unit
    Packed,        \* the units that packs come in
    Conversions,   \* the sets of conversions a product may be given
    MaxVersion,    \* bound: version of a set of prices
    NoUnit

Units  == Custom \cup Builtin
Owners == Branches \cup {Company}

ASSUME PricingAssumption ==
    /\ Company \notin Branches /\ NoUnit \notin Units
    /\ Custom \cap Builtin = {}
    /\ Packed \subseteq Units
    /\ Conversions \subseteq SUBSET (Units \X Units)
    /\ MaxVersion \in Nat

VARIABLES
    registered,  \* the tenant's uom rows
    base,        \* variant.baseUomCode, or NoUnit
    status,      \* variant.status
    own,         \* the variant's conversions: the unit and the base it converts to
    inherited,   \* the product's conversions
    packs,       \* pack identifiers: unit, base the quantity was frozen in, ACTIVE or not
    set,         \* the price set of an owner; version 0: there is none
    replacing    \* the open replacements

pricingVars == <<registered, base, status, own, inherited, packs, set, replacing>>
units       == <<registered, base, status, own, inherited, packs>>

\* Replaced sets hold the units with a price and (not in the database) the base unit each was agreed
\* under, and whether its writer had found, and so locked, the company's set.
Absent == [version |-> 0, rows |-> {}, shared |-> TRUE]
Coded(rows) == {r.unit : r \in rows}

-----------------------------------------------------------------------------
(* Which units a variant can be sold in.                                   *)

Known == registered \cup Builtin

\* The variant's conversions go before the product's.
Effective(b) == own \cup {c \in inherited : c[2] = b /\ \A d \in own : d[1] # c[1]}
SameFamily(u, v) == Family[u] = Family[v] /\ Family[u] # "EACH"
Resolves(u, b) == u = b \/ <<u, b>> \in Effective(b) \/ <<b, u>> \in Effective(b) \/ SameFamily(u, b)

\* An explicit conversion must say something the families do not.
Informative(c) == c[1] # c[2] /\ ~SameFamily(c[1], c[2])

-----------------------------------------------------------------------------
(* Locks.                                                                  *)

Open(s)    == replacing[s] # NoUnit
At(s, pc)  == Open(s) /\ replacing[s].at = pc
Held(s, o) == Open(s) /\ replacing[s].owner = o /\ replacing[s].at \in {"check", "commit"}

\* (Mutant: a branch does not lock the company's set.)
SharedByNobody(s) == FALSE

\* Every replacement shares the variant's row, and the branches' share the company's set if any.
VariantUnshared == \A s \in Writers : ~Open(s)

Shared(s)   == Open(s) /\ replacing[s].owner # Company /\ replacing[s].shared

SetFree(o)  == \A s \in Writers : ~Held(s, o) /\ (o = Company => ~Shared(s))
UnitFree(u) == \A s \in Writers : At(s, "commit") => u \notin replacing[s].entries

-----------------------------------------------------------------------------
(* Units.                                                                  *)

CreateUnit(u) ==
    /\ u \notin registered
    /\ registered' = registered \cup {u}
    /\ UNCHANGED <<base, status, own, inherited, packs, set, replacing>>

InUse(u) ==
    \/ u = base
    \/ \E c \in own \cup inherited : u \in {c[1], c[2]}
    \/ \E p \in packs : p.unit = u
    \/ \E o \in Owners : u \in Coded(set[o].rows)

\* Waits for the writers that hold the unit, then counts what refers to it.
RemoveUnit(u) ==
    /\ u \in registered /\ UnitFree(u) /\ ~InUse(u)
    /\ registered' = registered \ {u}
    /\ UNCHANGED <<base, status, own, inherited, packs, set, replacing>>

-----------------------------------------------------------------------------
(* The variant: each change locks its row.                                 *)

\* (Mutant: the variant may change under writers that have read it.)
ChangeReadVariant == UNCHANGED <<registered, inherited, set, replacing>>

ChangeVariant == VariantUnshared /\ UNCHANGED <<registered, inherited, set, replacing>>

SetBaseUom(u) ==
    /\ ChangeVariant
    /\ u # base /\ u \in Known
    /\ own = {} /\ packs = {} /\ \A o \in Owners : set[o].rows = {}
    /\ base # NoUnit => status = "DRAFT"
    /\ base' = u
    /\ UNCHANGED <<status, own, packs>>

\* (That the product is active and the combination free is not modelled here.)
Activate ==
    /\ ChangeVariant
    /\ status # "ACTIVE" /\ base # NoUnit
    /\ status' = "ACTIVE"
    /\ UNCHANGED <<base, own, packs>>

Archive ==
    /\ ChangeVariant
    /\ status # "ARCHIVED"
    /\ status' = "ARCHIVED"
    /\ UNCHANGED <<base, own, packs>>

ReplaceVariantConversions(from) ==
    /\ ChangeVariant
    /\ base # NoUnit /\ from \subseteq Known
    /\ \A u \in from : Informative(<<u, base>>)
    /\ own' = from \X {base}
    /\ UNCHANGED <<base, status, packs>>

CreatePack(u) ==
    /\ ChangeVariant
    /\ status # "ARCHIVED" /\ base # NoUnit
    /\ u \in Known /\ Resolves(u, base)
    /\ packs' = packs \cup {[unit |-> u, base |-> base, active |-> TRUE]}
    /\ UNCHANGED <<base, status, own>>

\* What was never sold is deleted; a code that may have been printed stays.
RemovePack(p) ==
    /\ ChangeVariant
    /\ packs' = (packs \ {p}) \cup IF status = "DRAFT" THEN {} ELSE {[p EXCEPT !.active = FALSE]}
    /\ UNCHANGED <<base, status, own>>

ReactivatePack(p) ==
    /\ ChangeVariant
    /\ status # "ARCHIVED"
    /\ packs' = (packs \ {p}) \cup {[p EXCEPT !.active = TRUE]}
    /\ UNCHANGED <<base, status, own>>

\* Locks the product, which no writer of prices does.
ReplaceProductConversions(conversions) ==
    /\ \A c \in conversions : {c[1], c[2]} \subseteq Known /\ Informative(c)
    /\ inherited' = conversions
    /\ UNCHANGED <<registered, base, status, own, packs, set, replacing>>

-----------------------------------------------------------------------------
(* Replacing a set of prices.                                              *)

Goto(s, pc) == replacing' = [replacing EXCEPT ![s].at = pc] /\ UNCHANGED <<units, set>>

\* The caller has seen the set, and its version is the If-Match of the request.  The variant's row is
\* shared, and a branch also shares the company's set: it waits for a writer of that, but finds, and
\* locks, only a set that has been committed.
BeginReplace(s, o, entries) ==
    /\ ~Open(s) /\ set[o].version < MaxVersion
    /\ (o = Company \/ entries # {}) => base # NoUnit
    /\ (o # Company /\ set[Company].version > 0) => \A r \in Writers : ~Held(r, Company)
    /\ replacing' = [replacing EXCEPT ![s] =
                 [owner |-> o, seen |-> set[o], entries |-> entries, base |-> base,
                  shared |-> set[Company].version > 0,
                  at |-> IF o = Company THEN "claim" ELSE "validate"]]
    /\ UNCHANGED <<units, set>>

Legitimate(s) == \A u \in replacing[s].entries : u \in Known /\ Resolves(u, replacing[s].base)

ValidateOverride(s) ==
    /\ At(s, "validate")
    /\ Legitimate(s) /\ replacing[s].entries \subseteq Coded(set[Company].rows)
    /\ Goto(s, "claim")

\* (Mutant: the version is compared with the one read when the request began.)
MatchesAtFirst(s) == SetFree(replacing[s].owner)

\* The set is created or locked, then the version is compared.
Matches(s) == SetFree(replacing[s].owner) /\ set[replacing[s].owner].version = replacing[s].seen.version
\* (Mutant: the units are taken to be there since they were validated.)
LockNoUnits(s) == TRUE

\* FOR KEY SHARE on the units, which must still be there.
LockUnits(s) == replacing[s].entries \subseteq Known
ClaimCompany(s) ==
    /\ At(s, "claim") /\ replacing[s].owner = Company
    /\ Matches(s) /\ Legitimate(s)
    /\ Goto(s, "check")

ClaimBranch(s) ==
    /\ At(s, "claim") /\ replacing[s].owner # Company
    /\ Matches(s) /\ LockUnits(s)
    /\ Goto(s, "commit")

\* No branch overrides a price that goes.
CheckOverrides(s) ==
    /\ At(s, "check")
    /\ LockUnits(s)
    /\ \A b \in Branches : Coded(set[b].rows) \cap Coded(set[Company].rows) \subseteq replacing[s].entries
    /\ Goto(s, "commit")

CommitReplace(s) ==
    /\ At(s, "commit")
    /\ set' = [set EXCEPT ![replacing[s].owner] =
                  [version |-> @.version + 1, shared |-> replacing[s].shared,
                   rows |-> [unit : replacing[s].entries, base : {replacing[s].base}]]]
    /\ replacing' = [replacing EXCEPT ![s] = NoUnit]
    /\ UNCHANGED units

AbandonReplace(s) ==
    /\ Open(s)
    /\ replacing' = [replacing EXCEPT ![s] = NoUnit]
    /\ UNCHANGED <<units, set>>

-----------------------------------------------------------------------------
PricingInit ==
    /\ registered = {} /\ base = NoUnit /\ status \in {"DRAFT", "ACTIVE"}
    /\ own = {} /\ inherited = {} /\ packs = {}
    /\ set = [o \in Owners |-> Absent]
    /\ replacing = [s \in Writers |-> NoUnit]

UnitStep == \E u \in Custom : CreateUnit(u) \/ RemoveUnit(u)
VariantChange ==
    \/ \E u \in Units : SetBaseUom(u)
    \/ \E u \in Packed : CreatePack(u)
    \/ Activate \/ Archive
    \/ \E from \in SUBSET Units : ReplaceVariantConversions(from)
    \/ \E p \in packs : RemovePack(p) \/ ReactivatePack(p)
ReplaceStep(s) ==
    \/ \E o \in Owners, entries \in SUBSET Units : BeginReplace(s, o, entries)
    \/ ValidateOverride(s)
    \/ ClaimCompany(s)
    \/ ClaimBranch(s)
    \/ CheckOverrides(s)
    \/ CommitReplace(s)
    \/ AbandonReplace(s)

PricingNext ==
    \/ UnitStep
    \/ VariantChange
    \/ \E conversions \in Conversions : ReplaceProductConversions(conversions)
    \/ \E s \in Writers : ReplaceStep(s)

PricingSpec == PricingInit /\ [][PricingNext]_pricingVars

-----------------------------------------------------------------------------
(* Properties.                                                             *)

Sets == [version : 0..MaxVersion, shared : BOOLEAN, rows : SUBSET [unit : Units, base : Units]]

\* Shapes of the variables.
PricingTypeOK ==
    /\ registered \subseteq Custom
    /\ base \in Units \cup {NoUnit} /\ status \in {"DRAFT", "ACTIVE", "ARCHIVED"}
    /\ own \subseteq Units \X Units /\ inherited \subseteq Units \X Units
    /\ packs \subseteq [unit : Units, base : Units, active : BOOLEAN]
    /\ set \in [Owners -> Sets]
    /\ \A s \in Writers : Open(s) =>
          replacing[s] \in [owner : Owners, seen : Sets, entries : SUBSET Units,
                            base : Units \cup {NoUnit}, shared : BOOLEAN,
                            at : {"validate", "claim", "check", "commit"}]

\* uom.repository.ts, FINAL CORRECTION 2: no unit is deleted while, or just before, something refers to
\* its code: the base, a conversion, a pack that may be reactivated, a price or an override of a branch.
EveryCodeIsRegistered ==
    /\ base \in Known \cup {NoUnit}
    /\ own \cup inherited \subseteq Known \X Known
    /\ \A p \in packs : p.unit \in Known
    /\ \A o \in Owners : Coded(set[o].rows) \subseteq Known

\* variant.repository.ts, Inv-1: prices, conversions and packs mean the base unit they were agreed under,
\* even while prices are being replaced.
BaseIsFrozen ==
    /\ \A o \in Owners : \A r \in set[o].rows : r.base = base
    /\ \A c \in own : c[2] = base
    /\ \A p \in packs : p.base = base

\* branch-pricing.repository.ts, BD-1: a branch overrides only what its company prices, provided that
\* its writer found the company's set to lock.
OverridesArePriced ==
    \A b \in Branches : set[b].shared => Coded(set[b].rows) \subseteq Coded(set[Company].rows)

\* The same, whatever the writer found, as the comment at branch-pricing.repository.ts:312 has it.
EveryOverrideIsPriced ==
    \A b \in Branches : Coded(set[b].rows) \subseteq Coded(set[Company].rows)

\* BD-4: a set is replaced only by somebody who saw exactly what is replaced, and no version comes back.
ReplacesWhatWasSeen ==
    [][\A o \in Owners : set'[o] # set[o] =>
          /\ \E s \in Writers : Open(s) /\ replacing[s].owner = o /\ replacing[s].seen = set[o]
          /\ set'[o].version > set[o].version]_pricingVars
=============================================================================
