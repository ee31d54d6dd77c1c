----------------------------- MODULE Catalogue -----------------------------
(***************************************************************************)
(* The catalogue that administrators keep (admin/catalog.service.ts) and   *)
(* the requests that refer to it (demandes.service.ts, resolveDevice).     *)
(*                                                                         *)
(* Its tables form a forest: domain > brand > model, domain > problem >    *)
(* diagnostic > intervention, city > zone, and equipment families.  A      *)
(* problem may be anchored to a brand and a model; an intervention has at  *)
(* most one tariff, with a journal.  Every handler reads, checks, and then *)
(* writes in another statement, so other handlers run in between.          *)
(*                                                                         *)
(* Each request makes one call of the API.  torn is a history variable:    *)
(* the rows written although what the handler had checked no longer held.  *)
(***************************************************************************)
EXTENDS Integers, FiniteSetsExt

CONSTANTS
    Rows,       \* identifiers of catalogue rows; none is used twice
    Kind,       \* the table of a row
    Parent,     \* the row its foreign key names, or None
    Line,       \* the ancestors of a row
    Seeded,     \* the rows that seedSmartphoneDomain creates
    Catchall,   \* the brands with the slug 'autres'; no slug becomes or leaves it
    Openings,   \* the catalogues to start from
    Labels,     \* names, up to case and blanks; slugs where only they count
    Bounds,     \* a subset of the amounts of a tariff
    Amounts,    \* prices
    Posted,     \* the amounts in the bodies of createPricing
    Edits,      \* the bodies of updatePricing
    Requests,
    None

Kinds == {"domain", "brand", "model", "problem", "diagnostic",
          "intervention", "city", "zone", "family"}
Of(k) == {r \in Rows : Kind[r] = k}

Brands        == Of("brand")
Models        == Of("model")
Problems      == Of("problem")
Interventions == Of("intervention")
Domains       == Of("domain")
Diagnostics   == Of("diagnostic")
Families      == Of("family")
Cities        == Of("city")
Zones         == Of("zone")

\* The table that the foreign key of a table names; the others have none.
Under == [brand |-> "domain", model |-> "brand", problem |-> "domain",
          diagnostic |-> "problem", intervention |-> "diagnostic", zone |-> "city"]

ASSUME RowsAssumption ==
    /\ IsFiniteSet(Rows) /\ None \notin Rows
    /\ Kind \in [Rows -> Kinds]
    /\ Parent \in [Rows -> Rows \cup {None}]
    /\ \A r \in Rows : IF Kind[r] \in DOMAIN Under THEN Parent[r] \in Of(Under[Kind[r]])
                                                   ELSE Parent[r] = None
    /\ Line \in [Rows -> SUBSET Rows]
    /\ \A r \in Rows : Line[r] = IF Parent[r] = None THEN {}
                                 ELSE Line[Parent[r]] \cup {Parent[r]}

\* Only for these tables does a unique index stand behind the check of the
\* label: the others check the name, and the index is on the slug.
Indexed == {"diagnostic", "intervention", "city", "zone"}

Anchors  == [brand : Brands \cup {None}, model : Models \cup {None}]
NoAnchor == [brand |-> None, model |-> None]

Prices == [Bounds -> Amounts \cup {None}]
Sheets == [prices : Prices, active : BOOLEAN]

ASSUME PricesAssumption ==
    /\ Amounts \subseteq Nat
    /\ None \notin Amounts
    /\ Bounds \subseteq {"min", "reference", "max", "travel", "service"}
    /\ Posted \subseteq Prices
    /\ Edits \subseteq [fields : SUBSET Bounds, prices : Prices, active : {"same", "on", "off"}]

\* The row pricing of an intervention, its identifier, the number of its journal
\* entries and what these entries say when they are read one after the other.
Tariffs == [at : {"none", "live"}, id : Nat, sheet : Sheets, entries : Nat, told : Sheets]

\* assertPricingValid: at least one amount, and min <= reference <= max by pairs.
Pairs == {<<"min", "reference">>, <<"reference", "max">>, <<"min", "max">>}

Ordered(p) ==
    \A c \in Pairs : ({c[1], c[2]} \subseteq Bounds /\ p[c[1]] # None /\ p[c[2]] # None)
                        => p[c[1]] <= p[c[2]]

Valid(p) == Ordered(p) /\ \E b \in Bounds : p[b] # None

Refs == [domain : Domains \cup {None}, brand : Brands \cup {None},
         model : Models \cup {None}, problem : Problems \cup {None},
         family : Families \cup {None},
         city : Cities \cup {None}, zone : Zones \cup {None}]

VARIABLES
    row,      \* per row: "unborn", "active", "inactive" (isActive) or "gone"
    label,    \* per row: its name
    anchor,   \* per row: brandId and modelId of a problem
    tariff,   \* per intervention
    demande,  \* per request: what the Demande it created refers to
    quoted,   \* interventions that a Diagnostic and a Quote refer to
    req,      \* per request: its call, where it stands and what it has read
    torn      \* history

vars == <<row, label, anchor, tariff, demande, quoted, req, torn>>

Live(r) == row[r] \in {"active", "inactive"}
Exists(r) == r # None => Live(r)
Active(r) == r # None => row[r] = "active"

Blank == [prices |-> [b \in Bounds |-> None], active |-> TRUE]
NoTariff == [at |-> "none", id |-> 0, sheet |-> Blank, entries |-> 0, told |-> Blank]
NoRefs == [domain |-> None, brand |-> None, model |-> None, problem |-> None,
           family |-> None, city |-> None, zone |-> None]

\* A catalogue to start from is one the handlers can have left behind.
ASSUME OpeningsAssumption ==
    \A o \in Openings :
        /\ o.rows \subseteq Rows /\ \A r \in o.rows : Line[r] \subseteq o.rows
        /\ o.gone \subseteq Rows \ o.rows
        /\ o.label \in [Rows -> Labels]
        /\ \A r, s \in o.rows : /\ r # s /\ Kind[r] = Kind[s] /\ Parent[r] = Parent[s]
                                => o.label[r] # o.label[s]
        /\ o.anchor \in [Rows -> Anchors]
        /\ \A r \in Rows : LET a == o.anchor[r] IN
             /\ a # NoAnchor => Kind[r] = "problem" /\ r \in o.rows
             /\ a.brand # None => a.brand \in o.rows /\ Parent[a.brand] = Parent[r]
             /\ a.model # None => a.model \in o.rows /\ Parent[a.model] = a.brand
        /\ o.tariff \in [Interventions -> Tariffs]
        /\ \A i \in Interventions : o.tariff[i].at = "live" =>
             /\ i \in o.rows
             /\ Valid(o.tariff[i].sheet.prices)
             /\ o.tariff[i].told = o.tariff[i].sheet

Init ==
    /\ \E o \in Openings : /\ row = [r \in Rows |-> CASE r \in o.rows -> "active"
                                                [] r \in o.gone -> "gone"
                                                [] OTHER -> "unborn"]
                           /\ label = o.label
                           /\ anchor = o.anchor
                           /\ tariff = o.tariff
    /\ demande = [q \in Requests |-> NoRefs]
    /\ quoted = {}
    /\ req = [q \in Requests |-> [at |-> "new"]]
    /\ torn = {}

----------------------------------------------------------------------------
\* The request ends, or a handler waits for the database with what it read.
Ends(q)     == req' = [req EXCEPT ![q] = [at |-> "done"]]
Awaits(q, x) == req[q].at = "new" /\ req' = [req EXCEPT ![q] = x]

Tear(r, stale) == torn' = IF stale THEN torn \cup {r} ELSE torn

\* assertUniqueName and the checks of slugs: another row of the same parent
\* (and, for a problem, of the same anchor) has this label.
Taken(r, l, a) ==
    \E s \in Rows \ {r} : /\ Live(s) /\ label[s] = l /\ anchor[s] = a
                          /\ Kind[s] = Kind[r] /\ Parent[s] = Parent[r]

\* assertBrandModelForProblem.
Anchored(r, a) ==
    /\ a.model # None => /\ a.brand # None
                         /\ Live(a.model)
                         /\ Parent[a.model] = a.brand
    /\ a.brand # None => Live(a.brand) /\ Parent[a.brand] = Parent[r]

\* create<Kind>: the parent exists, the label is free, the anchor is coherent.
CreateRead(q, r, l, a) ==
    /\ row[r] = "unborn"
    /\ \A s \in Requests : req[s].at = "create" => req[s].row # r   \* a fresh id
    /\ Exists(Parent[r])
    /\ Anchored(r, a)
    /\ ~Taken(r, l, a)
    /\ Awaits(q, [at |-> "create", row |-> r, label |-> l, anchor |-> a,
                  taken |-> Taken(r, l, a)])
    /\ UNCHANGED <<row, label, anchor, tariff, demande, quoted, torn>>

\* The insertion: foreign keys and indexes are all that is checked.
CreateCommit(q) ==
    /\ req[q].at = "create"
    /\ LET x == req[q]
           r == x.row
       IN  IF /\ Exists(Parent[r]) /\ Exists(x.anchor.brand) /\ Exists(x.anchor.model)
              /\ Kind[r] \in Indexed => ~Taken(r, x.label, x.anchor)
           THEN /\ row' = [row EXCEPT ![r] = "active"]
                /\ label' = [label EXCEPT ![r] = x.label]
                /\ anchor' = [anchor EXCEPT ![r] = x.anchor]
                /\ Tear(r, Taken(r, x.label, x.anchor) # x.taken)
           ELSE UNCHANGED <<row, label, anchor, torn>>
    /\ Ends(q)
    /\ UNCHANGED <<tariff, demande, quoted>>

\* Mutant: the new name is compared with nothing.
RenameReadFree(q, r, l) ==
    /\ Live(r)
    /\ Awaits(q, [at |-> "rename", row |-> r, label |-> l, taken |-> Taken(r, l, anchor[r])])
    /\ UNCHANGED <<row, label, anchor, tariff, demande, quoted, torn>>

\* update<Kind> with a name (or a slug where only slugs are checked).
RenameRead(q, r, l) ==
    /\ Live(r)
    /\ ~Taken(r, l, anchor[r])
    /\ Awaits(q, [at |-> "rename", row |-> r, label |-> l, taken |-> Taken(r, l, anchor[r])])
    /\ UNCHANGED <<row, label, anchor, tariff, demande, quoted, torn>>

RenameCommit(q) ==
    /\ req[q].at = "rename"
    /\ LET r == req[q].row
           taken == Taken(r, req[q].label, anchor[r])
       IN  IF Live(r) /\ (Kind[r] \in Indexed => ~taken)
           THEN label' = [label EXCEPT ![r] = req[q].label] /\ Tear(r, taken # req[q].taken)
           ELSE UNCHANGED <<label, torn>>
    /\ Ends(q)
    /\ UNCHANGED <<row, anchor, tariff, demande, quoted>>

\* update<Kind> with isActive alone: nothing is checked but the row.
Switch(q, r, on) ==
    /\ req[q].at = "new"
    /\ Live(r)
    /\ row' = [row EXCEPT ![r] = IF on THEN "active" ELSE "inactive"]
    /\ Ends(q)
    /\ UNCHANGED <<label, anchor, tariff, demande, quoted, torn>>

\* updateProblem with brandId, modelId or both: the anchor is checked as it
\* would be after the write, but only the fields of the body are written.
Onto(old, new, fields) ==
    [brand |-> IF "brand" \in fields THEN new.brand ELSE old.brand,
     model |-> IF "model" \in fields THEN new.model ELSE old.model]

\* Mutant: only the fields of the body are checked.
AnchorReadBody(q, r, new, fields) ==
    /\ Live(r)
    /\ fields # {} /\ Onto(NoAnchor, new, fields) = new
    /\ new.brand # None => Live(new.brand) /\ Parent[new.brand] = Parent[r]
    /\ new.model # None => Live(new.model)
    /\ Awaits(q, [at |-> "anchor", row |-> r, new |-> new, fields |-> fields,
                  seen |-> anchor[r]])
    /\ UNCHANGED <<row, label, anchor, tariff, demande, quoted, torn>>

AnchorRead(q, r, new, fields) ==
    /\ Live(r)
    /\ fields # {} /\ Onto(NoAnchor, new, fields) = new
    /\ Anchored(r, Onto(anchor[r], new, fields))
    /\ Awaits(q, [at |-> "anchor", row |-> r, new |-> new, fields |-> fields,
                  seen |-> anchor[r]])
    /\ UNCHANGED <<row, label, anchor, tariff, demande, quoted, torn>>

AnchorCommit(q) ==
    /\ req[q].at = "anchor"
    /\ LET x == req[q]
           r == x.row
           a == Onto(anchor[r], x.new, x.fields)
       IN  IF Live(r) /\ Exists(a.brand) /\ Exists(a.model)
           THEN /\ anchor' = [anchor EXCEPT ![r] = a]
                /\ Tear(r, anchor[r] # x.seen \/ Taken(r, label[r], a))
           ELSE UNCHANGED <<anchor, torn>>
    /\ Ends(q)
    /\ UNCHANGED <<row, label, tariff, demande, quoted>>

----------------------------------------------------------------------------
(* Deletions *)

\* Mutant: a family has no foreign key, so nothing is counted for it.
BlockedByKeys(r) ==
    \/ \E s \in Rows : Live(s) /\ (Parent[s] = r \/ anchor[s].brand = r \/ anchor[s].model = r)
    \/ \E q \in Requests : \E f \in DOMAIN demande[q] \ {"family"} : demande[q][f] = r
    \/ r \in Interventions /\ tariff[r].at = "live"
    \/ r \in quoted

\* A family is named by its code, in a text column.
Requested(r) == \E q \in Requests : \E f \in DOMAIN demande[q] : demande[q][f] = r

\* countBlockers of every delete<Kind>: children, and what else refers to r.
Blocked(r) ==
    \/ \E s \in Rows : Live(s) /\ (Parent[s] = r \/ anchor[s].brand = r \/ anchor[s].model = r)
    \/ Requested(r)
    \/ r \in Interventions /\ tariff[r].at = "live"
    \/ r \in quoted

\* A city is also named by accounts, which are not modelled.
Counted(r) == IF r \in Cities THEN {Blocked(r), TRUE} ELSE {Blocked(r)}

\* The deletion of a row with the schema's onDelete rules: its descendants and
\* their tariffs go (Cascade), other references to them become null (SetNull).
\* A family is only named by a text column of the requests.
Vanish(r) ==
    LET S == {s \in Rows : Live(s) /\ (s = r \/ r \in Line[s])}
        Null(s) == IF s \in S THEN None ELSE s
    IN  /\ row' = [s \in Rows |-> IF s \in S THEN "gone" ELSE row[s]]
        /\ anchor' = [s \in Rows |-> [brand |-> Null(anchor[s].brand),
                                      model |-> Null(anchor[s].model)]]
        /\ tariff' = [i \in Interventions |->
                        IF i \in S /\ tariff[i].at = "live"
                        THEN [tariff[i] EXCEPT !.at = "none"] ELSE tariff[i]]
        /\ demande' = [q \in Requests |->
                        [demande[q] EXCEPT !.domain = Null(@), !.brand = Null(@),
                                           !.model = Null(@), !.problem = Null(@),
                                           !.city = Null(@), !.zone = Null(@)]]
        /\ quoted' = quoted \ S

\* deleteOrDeactivate: the count is read, then the row is deleted or switched off.
DeleteRead(q, r) ==
    /\ Live(r)
    /\ \E b \in Counted(r) : Awaits(q, [at |-> "delete", row |-> r, blocked |-> b])
    /\ UNCHANGED <<row, label, anchor, tariff, demande, quoted, torn>>

DeleteCommit(q) ==
    /\ req[q].at = "delete"
    /\ LET r == req[q].row IN
         \/ /\ Live(r) /\ ~req[q].blocked
            /\ Vanish(r)
            /\ Tear(r, Blocked(r))
         \/ /\ Live(r) /\ req[q].blocked
            /\ row' = [row EXCEPT ![r] = "inactive"]
            /\ UNCHANGED <<anchor, tariff, demande, quoted, torn>>
         \/ /\ ~Live(r)                                      \* P2025
            /\ UNCHANGED <<row, anchor, tariff, demande, quoted, torn>>
    /\ Ends(q)
    /\ UNCHANGED label

\* deleteDomainHard: announced as irreversible, whatever depends on the domain.
HardDelete(q, r) ==
    /\ req[q].at = "new"
    /\ Live(r)
    /\ Vanish(r)
    /\ Ends(q)
    /\ UNCHANGED <<label, torn>>

----------------------------------------------------------------------------
(* Tariffs *)

\* The body of updatePricing names some prices, and perhaps isActive.
Edit(sheet, e) ==
    [prices |-> [b \in Bounds |-> IF b \in e.fields THEN e.prices[b] ELSE sheet.prices[b]],
     active |-> IF e.active = "same" THEN sheet.active ELSE e.active = "on"]

\* A tariff of no entry, for an intervention that may have had another before.
Priceable(i) == Live(i) /\ tariff[i].at = "none"
Tariff(i, x, n) == [at |-> "live", id |-> tariff[i].id + 1, sheet |-> x, entries |-> n, told |-> x]

\* createPricing: only under a problem anchored to a model.
TariffRead(q, i, p) ==
    /\ Priceable(i)
    /\ anchor[Parent[Parent[i]]].model # None
    /\ Valid(p)
    /\ Awaits(q, [at |-> "tariff", row |-> i, sheet |-> [prices |-> p, active |-> TRUE]])
    /\ UNCHANGED <<row, label, anchor, tariff, demande, quoted, torn>>

\* The tariff and its first journal entry, in one transaction.
TariffCommit(q) ==
    /\ req[q].at = "tariff"
    /\ LET i == req[q].row
           x == req[q].sheet
       IN  tariff' = IF Priceable(i) THEN [tariff EXCEPT ![i] = Tariff(i, x, 1)] ELSE tariff
    /\ Ends(q)
    /\ UNCHANGED <<row, label, anchor, demande, quoted, torn>>

\* Mutant: the body is validated without the row it is merged with.
PricingReadBody(q, i, e) ==
    /\ tariff[i].at = "live"
    /\ e.fields # {} => Valid(Edit(Blank, e).prices)
    /\ Awaits(q, [at |-> "pricing", row |-> i, id |-> tariff[i].id, edit |-> e,
                  seen |-> tariff[i].sheet])
    /\ UNCHANGED <<row, label, anchor, tariff, demande, quoted, torn>>

\* updatePricing: what the merge gives is validated, the values read are kept.
PricingRead(q, i, e) ==
    /\ tariff[i].at = "live"
    /\ Valid(Edit(tariff[i].sheet, e).prices)
    /\ Awaits(q, [at |-> "pricing", row |-> i, id |-> tariff[i].id, edit |-> e,
                  seen |-> tariff[i].sheet])
    /\ UNCHANGED <<row, label, anchor, tariff, demande, quoted, torn>>

\* The fields of the body are written; the entry tells the values read, edited,
\* and names the tariff that was read: it must still be there.
PricingCommit(q) ==
    /\ req[q].at = "pricing"
    /\ LET i == req[q].row
           x == req[q]
       IN  IF tariff[i].at = "live" /\ tariff[i].id = x.id
           THEN /\ tariff' = [tariff EXCEPT ![i] =
                              [at |-> "live", id |-> @.id, sheet |-> Edit(@.sheet, x.edit),
                               entries |-> @.entries + 1, told |-> Edit(x.seen, x.edit)]]
                /\ Tear(i, tariff[i].sheet # x.seen)
           ELSE UNCHANGED <<tariff, torn>>
    /\ Ends(q)
    /\ UNCHANGED <<row, label, anchor, demande, quoted>>

\* deletePricing: without journal entries the tariff is deleted, else it is
\* switched off and the journal told so.
DropRead(q, i) ==
    /\ tariff[i].at = "live"
    /\ Awaits(q, [at |-> "drop", row |-> i, id |-> tariff[i].id, seen |-> tariff[i].entries])
    /\ UNCHANGED <<row, label, anchor, tariff, demande, quoted, torn>>

\* Mutant: the tariff is switched off and the journal not told.
DropCommitSilent(q) ==
    /\ req[q].at = "drop"
    /\ tariff' = IF tariff[req[q].row].at = "live"
                 THEN [tariff EXCEPT ![req[q].row].sheet.active = FALSE] ELSE tariff
    /\ Ends(q)
    /\ UNCHANGED <<row, label, anchor, demande, quoted, torn>>

\* Mutant: the tariff is deleted with its journal.
DropCommitWhole(q) ==
    /\ req[q].at = "drop"
    /\ LET i == req[q].row IN
       IF tariff[i].at = "live"
       THEN tariff' = [tariff EXCEPT ![i].at = "none"] /\ Tear(i, tariff[i].entries # req[q].seen)
       ELSE UNCHANGED <<tariff, torn>>
    /\ Ends(q)
    /\ UNCHANGED <<row, label, anchor, demande, quoted>>

DropCommit(q) ==
    /\ req[q].at = "drop"
    /\ LET i == req[q].row
           there == tariff[i].at = "live" /\ tariff[i].id = req[q].id
       IN
         \/ /\ there /\ req[q].seen = 0
            /\ tariff' = [tariff EXCEPT ![i] = [@ EXCEPT !.at = "none"]]
            /\ Tear(i, tariff[i].entries # 0)
         \/ /\ there /\ req[q].seen > 0
            /\ tariff' = [tariff EXCEPT ![i] =
                            [at |-> "live", id |-> @.id, sheet |-> [@.sheet EXCEPT !.active = FALSE],
                             entries |-> @.entries + 1,
                             told |-> [@.told EXCEPT !.active = FALSE]]]
            /\ UNCHANGED torn
         \/ /\ ~there
            /\ UNCHANGED <<tariff, torn>>
    /\ Ends(q)
    /\ UNCHANGED <<row, label, anchor, demande, quoted>>

----------------------------------------------------------------------------
(* The seed of the smartphone domain: upserts that write nothing over what  *)
(* exists, one by one, parents first.  Its tariffs have no journal.         *)

\* The domain alone is given its name again if it exists, or else created, and
\* nobody checks whether another one bears it.
SeedStart(q, d, l) ==
    /\ Awaits(q, [at |-> "seed"])
    /\ IF Live(d) THEN label' = [label EXCEPT ![d] = l] /\ Tear(d, Taken(d, l, NoAnchor))
                  ELSE UNCHANGED <<label, torn>>
    /\ UNCHANGED <<row, anchor, tariff, demande, quoted>>

\* What was deleted comes back as another row of Seeded.
SeedRow(q, r, l) ==
    /\ req[q].at = "seed"
    /\ row[r] = "unborn" /\ Exists(Parent[r])
    /\ \A s \in Requests : req[s].at = "create" => req[s].row # r
    /\ row' = [row EXCEPT ![r] = "active"]
    /\ label' = [label EXCEPT ![r] = l]
    /\ Tear(r, Taken(r, l, NoAnchor))
    /\ Kind[r] \in Indexed => ~Taken(r, l, NoAnchor)
    /\ UNCHANGED <<anchor, tariff, demande, quoted, req>>

SeedDomain(q, l)   == \E r \in Seeded \cap Domains : SeedRow(q, r, l)
SeedBrands(q, l)   == \E r \in Seeded \cap (Brands \cup Models) : SeedRow(q, r, l)
SeedProblems(q, l) == \E r \in Seeded \cap (Problems \cup Diagnostics \cup Interventions) :
                          SeedRow(q, r, l)

SeedTariff(q, i, p) ==
    /\ req[q].at = "seed"
    /\ Priceable(i)
    /\ Valid(p) /\ \A b \in Bounds : p[b] # None
    /\ tariff' = [tariff EXCEPT ![i] = Tariff(i, [prices |-> p, active |-> TRUE], 0)]
    /\ UNCHANGED <<row, label, anchor, demande, quoted, req, torn>>

\* The last row is there, or a statement failed: what is written stays.
SeedEnd(q) ==
    /\ req[q].at = "seed"
    /\ Ends(q)
    /\ UNCHANGED <<row, label, anchor, tariff, demande, quoted, torn>>

----------------------------------------------------------------------------
(* What the catalogue shows: the lists of the client's application, and the *)
(* scales of prices for the administration.                                 *)

PublicDomains     == {d \in Domains : row[d] = "active"}
PublicBrands(d)   == {b \in Brands \ Catchall : row[d] = "active" /\ row[b] = "active" /\ Parent[b] = d}
PublicModels(b)   == {m \in Models : row[b] = "active" /\ row[m] = "active" /\ Parent[m] = b}
PublicFamilies    == {f \in Families : row[f] = "active"}
PublicCities      == {c \in Cities : row[c] = "active"}
PublicZones(c)    == {z \in Zones : row[c] = "active" /\ row[z] = "active" /\ Parent[z] = c}

\* Mutant: the model is not a filter.
PublicProblemsOfBrand(d, b, m) ==
    {p \in Problems : /\ row[d] = "active" /\ row[p] = "active" /\ Parent[p] = d
                      /\ anchor[p].brand \in {None, b}}

\* Both filters are keys OR of one object, and the second one replaces the
\* first: once the model is named, the brand is no filter.
PublicProblems(d, b, m) ==
    {p \in Problems : /\ row[d] = "active" /\ row[p] = "active" /\ Parent[p] = d
                      /\ m = None => anchor[p].brand \in {None, b}
                      /\ anchor[p].model \in {None, m}}

Priced(S) == {i \in S : row[i] = "active" /\ tariff[i].at = "live" /\ tariff[i].sheet.active}

\* Mutant: the first reference price stands for all.
ScaleOfFirst(S) ==
    LET given(b) == IF b \in Bounds THEN {tariff[i].sheet.prices[b] : i \in S} \ {None} ELSE {}
    IN  [min       |-> IF given("min") = {} THEN None ELSE Min(given("min")),
         reference |-> IF given("reference") = {} THEN None ELSE Min(given("reference")),
         max       |-> IF given("max") = {} THEN None ELSE Max(given("max"))]

\* The least minimum, the greatest maximum, and the reference price if they
\* all have the same.
ScaleOf(S) ==
    LET given(b) == IF b \in Bounds THEN {tariff[i].sheet.prices[b] : i \in S} \ {None} ELSE {}
    IN  [min       |-> IF given("min") = {} THEN None ELSE Min(given("min")),
         reference |-> IF Cardinality(given("reference")) = 1
                       THEN Min(given("reference")) ELSE None,
         max       |-> IF given("max") = {} THEN None ELSE Max(given("max"))]

DiagnosticScale(g) == ScaleOf(Priced({i \in Interventions : Parent[i] = g}))
HasActiveScale(g)  == row[g] = "active" /\ Priced({i \in Interventions : Parent[i] = g}) # {}

\* getProblemScale: the same over the active diagnostics of the problem.
ProblemScale(p) ==
    ScaleOf(Priced({i \in Interventions : /\ Parent[Parent[i]] = p
                                         /\ row[Parent[i]] = "active"}))

----------------------------------------------------------------------------
(* What refers to the catalogue *)

\* resolveDevice: what the body leaves out is taken from the parents of what
\* it names, the brand and the model at last from the problem's anchor.
\* resolveDemandeGeo: the city is the zone's.
Resolved(x) ==
    LET p == x.problem
        domain == IF x.brand # None THEN Parent[x.brand] ELSE x.domain
        brand  == IF x.model # None THEN Parent[x.model] ELSE x.brand
    IN  [x EXCEPT !.domain = IF p # None THEN Parent[p] ELSE domain,
                  !.brand  = IF brand = None /\ p # None THEN anchor[p].brand ELSE brand,
                  !.model  = IF x.model = None /\ p # None THEN anchor[p].model ELSE x.model,
                  !.city   = IF x.zone # None THEN Parent[x.zone] ELSE x.city]

\* resolveGeoFromText: the text names an active city, or an active zone by its
\* name, whatever has become of its city.
NamedPlace(x) ==
    /\ Active(x.city) /\ Active(x.zone)
    /\ x.city = None \/ x.zone = None

\* With zoneId: the zone and its city are active, and the text names no other city.
ChosenPlace(x) ==
    /\ x.zone # None /\ Active(x.zone) /\ Active(Parent[x.zone])
    /\ x.city \in {None, Parent[x.zone]}

AcceptsPlace(x) == NamedPlace(x) \/ ChosenPlace(x)

\* Mutant: the model is not compared with the brand.
AcceptsAnyModel(x) ==
    /\ Active(x.domain) /\ Active(x.brand) /\ Active(x.model)
    /\ Active(x.problem) /\ Active(x.family)
    /\ (x.domain # None /\ x.brand # None) => Parent[x.brand] = x.domain
    /\ AcceptsPlace(x)
    /\ Resolved(x).domain # None => Resolved(x).brand # None /\ x.family = None

\* Each row is compared with what is known when it is read: a model is not
\* compared with the domain unless the body names the brand.
Accepts(x) ==
    LET p == x.problem
        domain == IF x.brand # None THEN Parent[x.brand] ELSE x.domain
        brand  == IF x.model # None THEN Parent[x.model] ELSE x.brand
    IN  /\ Active(x.domain) /\ Active(x.brand) /\ Active(x.model)
        /\ Active(x.problem) /\ Active(x.family)
        /\ (x.domain # None /\ x.brand # None) => Parent[x.brand] = x.domain
        /\ (x.model # None /\ x.brand # None) => Parent[x.model] = x.brand
        /\ p # None =>
             /\ domain # None => Parent[p] = domain
             /\ (anchor[p].brand # None /\ brand # None) => anchor[p].brand = brand
             /\ (anchor[p].model # None /\ x.model # None) => anchor[p].model = x.model
        /\ AcceptsPlace(x)
        /\ Resolved(x).domain # None => Resolved(x).brand # None /\ x.family = None

\* The bodies worth looking at: any row that is not active is refused.
Bodies ==
    LET known(S) == {r \in S : row[r] = "active"} \cup {None}
    IN  [domain : known(Domains), brand : known(Brands), model : known(Models),
         problem : known(Problems), family : known(Families),
         city : known(Cities), zone : known(Zones)]

DemandeRead(q, x) ==
    /\ Accepts(x)
    /\ Awaits(q, [at |-> "demande", body |-> x, refs |-> Resolved(x)])
    /\ UNCHANGED <<row, label, anchor, tariff, demande, quoted, torn>>

\* The insertion checks the foreign keys; the family is text, and not checked.
DemandeCommit(q) ==
    /\ req[q].at = "demande"
    /\ LET x == req[q].refs IN
       IF \A f \in DOMAIN x \ {"family"} : Exists(x[f])
       THEN /\ demande' = [demande EXCEPT ![q] = x]
            /\ Tear(x.family, ~Exists(x.family))
            /\ req' = [req EXCEPT ![q] = [at |-> "made", body |-> req[q].body]]
       ELSE Ends(q) /\ UNCHANGED <<demande, torn>>
    /\ UNCHANGED <<row, label, anchor, tariff, quoted>>

\* suggestDiagnostics (collaboration.service.ts): the diagnostics proposed to
\* the technician for a request that refers to x.
Suggested(x) ==
    {g \in Diagnostics :
        /\ row[g] = "active" /\ row[Parent[g]] = "active"
        /\ x.domain # None => Parent[Parent[g]] = x.domain
        /\ x.brand # None => anchor[Parent[g]].brand \in {None, x.brand}
        /\ x.model # None => anchor[Parent[g]].model \in {None, x.model}}

\* selectCatalogDiagnostic: the diagnostic is for the request's device.
Fits(x, g) ==
    LET a == anchor[Parent[g]] IN
    /\ x.domain # None => Parent[Parent[g]] = x.domain
    /\ (x.model # None /\ a.model # None) => a.model = x.model
    /\ (x.brand # None /\ a.model = None /\ a.brand # None) => a.brand = x.brand

\* Active rows and an active tariff, with a reference price; the problem and
\* the domain may have been switched off.
Choosable(i) ==
    /\ row[i] = "active" /\ row[Parent[i]] = "active"
    /\ tariff[i].at = "live" /\ tariff[i].sheet.active
    /\ "reference" \in Bounds => tariff[i].sheet.prices["reference"] # None

\* The request is an old one, of which the catalogue says nothing, or one that
\* was created here; then a Diagnostic and a Quote name the intervention.
QuoteRead(q, i) ==
    /\ Choosable(i)
    /\ \E s \in Requests : Fits(demande[s], Parent[i])
    /\ Awaits(q, [at |-> "quote", row |-> i])
    /\ UNCHANGED <<row, label, anchor, tariff, demande, quoted, torn>>

\* Mutant: the quote names the diagnostic in the intervention's column.
QuoteCommitSwapped(q) ==
    /\ req[q].at = "quote"
    /\ quoted' = IF Live(req[q].row) THEN quoted \cup {Parent[req[q].row]} ELSE quoted
    /\ Ends(q)
    /\ UNCHANGED <<row, label, anchor, tariff, demande, torn>>

QuoteCommit(q) ==
    /\ req[q].at = "quote"
    /\ quoted' = IF Live(req[q].row) THEN quoted \cup {req[q].row} ELSE quoted
    /\ Ends(q)
    /\ UNCHANGED <<row, label, anchor, tariff, demande, torn>>

\* The handlers create<Kind> and update<Kind>, by table.
Manage(q, r) ==
    \/ \E l \in Labels : CreateRead(q, r, l, NoAnchor) \/ RenameRead(q, r, l)
    \/ \E on \in BOOLEAN : Switch(q, r, on)

OnDomain(q)  == \E r \in Domains  : Manage(q, r) \/ HardDelete(q, r)
OnBrand(q)   == \E r \in Brands        : Manage(q, r)
OnModel(q)   == \E r \in Models        : Manage(q, r)
OnFamily(q)  == \E r \in Families  : Manage(q, r)
OnCity(q)    == \E r \in Cities    : Manage(q, r)
OnZone(q)    == \E r \in Zones    : Manage(q, r)
OnDiagnostic(q) == \E r \in Diagnostics : Manage(q, r)

OnProblem(q) ==
    \E r \in Problems :
        \/ Manage(q, r)
        \/ \E a \in Anchors :
            \/ \E l \in Labels : CreateRead(q, r, l, a)
            \/ \E F \in SUBSET {"brand", "model"} : AnchorRead(q, r, a, F)

OnIntervention(q) ==
    \E r \in Interventions :
        \/ Manage(q, r)
        \/ \E p \in Posted : TariffRead(q, r, p)
        \/ \E e \in Edits : PricingRead(q, r, e)
        \/ DropRead(q, r)

\* The routes of the administration and of the applications.
Begin(q) ==
    \/ OnDomain(q) \/ OnBrand(q) \/ OnModel(q) \/ OnFamily(q)
    \/ OnCity(q) \/ OnZone(q)
    \/ OnProblem(q) \/ OnDiagnostic(q) \/ OnIntervention(q)
    \/ \E r \in Rows : DeleteRead(q, r)
    \/ \E d \in Seeded \cap Domains, l \in Labels : SeedStart(q, d, l)
    \/ \E x \in Bodies : DemandeRead(q, x)
    \/ \E i \in Interventions : QuoteRead(q, i)

Commit(q) ==
    \/ CreateCommit(q)
    \/ RenameCommit(q)
    \/ AnchorCommit(q)
    \/ DeleteCommit(q)
    \/ TariffCommit(q)
    \/ PricingCommit(q)
    \/ DropCommit(q)
    \/ \E l \in Labels : SeedDomain(q, l) \/ SeedBrands(q, l) \/ SeedProblems(q, l)
    \/ \E i \in Seeded \cap Interventions, p \in Prices : SeedTariff(q, i, p)
    \/ SeedEnd(q)
    \/ DemandeCommit(q)
    \/ QuoteCommit(q)

Next == \E q \in Requests : (req[q].at = "new" /\ Begin(q)) \/ Commit(q)

Spec == Init /\ [][Next]_vars

----------------------------------------------------------------------------
(* Properties *)

Requesting ==
    {[at |-> "new"], [at |-> "done"], [at |-> "seed"]}
    \cup [at : {"create"}, row : Rows, label : Labels, anchor : Anchors, taken : BOOLEAN]
    \cup [at : {"rename"}, row : Rows, label : Labels, taken : BOOLEAN]
    \cup [at : {"anchor"}, row : Problems, new : Anchors,
          fields : SUBSET {"brand", "model"}, seen : Anchors]
    \cup [at : {"delete"}, row : Rows, blocked : BOOLEAN]
    \cup [at : {"tariff"}, row : Interventions, sheet : Sheets]
    \cup [at : {"pricing"}, row : Interventions, id : Nat, edit : Edits, seen : Sheets]
    \cup [at : {"drop"}, row : Interventions, id : Nat, seen : Nat]
    \cup [at : {"demande"}, body : Refs, refs : Refs]
    \cup [at : {"made"}, body : Refs]
    \cup [at : {"quote"}, row : Interventions]

\* The shape of the state, with the domains of the tables' columns.
TypeOK ==
    /\ row \in [Rows -> {"unborn", "active", "inactive", "gone"}]
    /\ label \in [Rows -> Labels]
    /\ anchor \in [Rows -> Anchors]
    /\ tariff \in [Interventions -> Tariffs]
    /\ demande \in [Requests -> Refs]
    /\ quoted \subseteq Interventions
    /\ req \in [Requests -> Requesting]
    /\ torn \subseteq Rows

\* assertPricingValid is the only authority on prices, but it judges the merge
\* with the row as it was read: min <= reference <= max in every tariff that
\* no update has written over a version it had not seen.
PricesOrdered ==
    \A i \in Interventions :
        tariff[i].at = "live" /\ i \notin torn => Valid(tariff[i].sheet.prices)

\* The journal tells the whole history of a tariff: its entries, replayed, give
\* the row, unless an update was computed from a version it had not seen.
JournalTells ==
    \A i \in Interventions :
        tariff[i].at = "live" /\ i \notin torn => tariff[i].told = tariff[i].sheet

\* A problem's model belongs to its brand and its brand to its domain, through
\* partial updates and the deletion of either, unless two updates of the anchor
\* were computed from the same version.
AnchorsCoherent ==
    \A r \in Rows : Live(r) /\ r \notin torn => Anchored(r, anchor[r])

\* The parts of the device that a request names stay rows of the catalogue and
\* of one line, whatever is deleted under it: model of the brand, problem of
\* the domain, brand of the domain where the client named the brand, and zone
\* of the city.
DemandesCoherent ==
    \A q \in Requests : req[q].at = "made" =>
        LET x == demande[q]
            body == req[q].body
        IN  /\ \A f \in DOMAIN x \ {"family"} : Exists(x[f])
            /\ x.zone # None => x.city = Parent[x.zone]
            /\ (x.model # None /\ body.problem \notin torn) => x.brand = Parent[x.model]
            /\ x.problem # None => x.domain = Parent[x.problem]
            /\ (x.brand # None /\ body.brand # None) => x.domain = Parent[x.brand]

\* No request names a family that does not exist, though no foreign key says
\* so, unless the family was deleted on a count that no longer held.
NoOrphan ==
    \A q \in Requests :
        demande[q].family # None => Live(demande[q].family) \/ demande[q].family \in torn

\* Two rows side by side never bear one name, unless the seed, which compares
\* no names, or a request overtaken by another wrote one of them: no index
\* stands behind the check.
LabelsUnique ==
    LET Checked == {r \in Rows \ Problems : Live(r) /\ r \notin torn}
    IN  \A r \in Checked : \A s \in Checked \ {r} :
            Kind[r] = Kind[s] /\ Parent[r] = Parent[s] => label[r] # label[s]

\* Whatever the client's application puts together from the public lists is a
\* request that the server accepts as long as nothing changes (except for a
\* problem of another brand, listed because the model hides the brand), and a
\* technician may choose whatever is suggested for a request.
OfferIsAccepted ==
    /\ \A d \in PublicDomains : \A b \in PublicBrands(d) :
          \A m \in PublicModels(b) \cup {None} : \A p \in PublicProblems(d, b, m) \cup {None} :
              \/ Accepts([NoRefs EXCEPT !.domain = d, !.brand = b, !.model = m, !.problem = p])
              \/ m # None /\ p # None /\ anchor[p].brand \notin {None, b}
    /\ \A f \in PublicFamilies : Accepts([NoRefs EXCEPT !.family = f])
    /\ \A c \in PublicCities :
          /\ NamedPlace([NoRefs EXCEPT !.city = c])
          /\ \A z \in PublicZones(c) : ChosenPlace([NoRefs EXCEPT !.city = c, !.zone = z])
    /\ \A q \in Requests : \A g \in Suggested(demande[q]) : Fits(demande[q], g)

\* What the administration reads as the scale of a diagnostic is what its
\* technicians can charge: the scale is active when something can be chosen,
\* when it has a reference price every quote is for that price, and its minimum
\* is no higher than any quote (of a tariff with a minimum, for the others do
\* not count); so too for the scale of the problem.
ScaleTellsQuotes ==
    \A i \in Interventions : Choosable(i) =>
        /\ HasActiveScale(Parent[i])
        /\ \A s \in {DiagnosticScale(Parent[i]), ProblemScale(Parent[Parent[i]])} :
             "reference" \in Bounds =>
               LET p == tariff[i].sheet.prices IN
               /\ s.reference \in {None, p["reference"]}
               /\ ("min" \in Bounds /\ p["min"] # None /\ i \notin torn) =>
                    s.min <= p["reference"]

\* What the catalogue says of prices is true wherever it says it: in the row,
\* in its journal and in the scales that are computed from it.
TariffsTell == PricesOrdered /\ JournalTells /\ ScaleTellsQuotes

\* The forest of the catalogue and the requests that refer to it fit together.
CatalogueCoherent == AnchorsCoherent /\ DemandesCoherent /\ NoOrphan /\ LabelsUnique

\* "never destroyed": a journal, a request's reference and a quote's reference
\* are only lost when the whole domain is deleted for good, or when something
\* was deleted on a count that no longer held.
Excused(r) ==
    \/ \E d \in Line[r] \cup {r} : Kind[d] = "domain" /\ row'[d] = "gone"
    \/ (Line[r] \cup {r}) \cap torn' # {}

NothingLost ==
    [][/\ \A i \in Interventions :
            tariff[i].at = "live" /\ tariff[i].entries > 0 /\ tariff'[i].at = "none" => Excused(i)
       /\ \A q \in Requests : \A f \in DOMAIN demande[q] :
            demande[q][f] # None /\ demande'[q][f] = None => Excused(demande[q][f])
       /\ \A i \in quoted \ quoted' : Excused(i)]_vars
=============================================================================
