--------------------------- MODULE Admin_proofs ---------------------------
(***************************************************************************)
(* Theorems about what the administration keeps: the catalogue, for any    *)
(* forest of rows, any prices and any number of concurrent calls; and an   *)
(* account (Sessions), for any number of concurrent requests, any          *)
(* passwords and any bounds.  The two share no state.                      *)
(***************************************************************************)
EXTENDS Catalogue, Sessions, DataTheorems

-----------------------------------------------------------------------------
(* The forest.                                                             *)

LEMMA Parents ==
  /\ \A b \in Brands : b \in Rows /\ Parent[b] \in Domains
  /\ \A m \in Models : m \in Rows /\ Parent[m] \in Brands
  /\ \A p \in Problems : p \in Rows /\ Parent[p] \in Domains
  /\ \A g \in Diagnostics : g \in Rows /\ Parent[g] \in Problems
  /\ \A i \in Interventions : i \in Rows /\ Parent[i] \in Diagnostics
  /\ \A z \in Zones : z \in Rows /\ Parent[z] \in Cities
  /\ \A r \in Domains \cup Families \cup Cities : r \in Rows /\ Parent[r] = None
BY RowsAssumption
DEF Under, Of, Brands, Models, Problems, Diagnostics, Interventions, Zones, Domains, Families,
    Cities

LEMMA Lines ==
  ASSUME NEW r \in Rows
  PROVE  /\ Line[r] \subseteq Rows
         /\ Parent[r] = None => Line[r] = {}
         /\ Parent[r] # None => Parent[r] \in Rows /\ Line[r] = Line[Parent[r]] \cup {Parent[r]}
BY RowsAssumption

-----------------------------------------------------------------------------
(* Types.                                                                  *)

Table == <<row, label, anchor, tariff, demande, quoted, torn>>

LEMMA Asked ==
  /\ [at |-> "done"] \in Requesting /\ [at |-> "seed"] \in Requesting
  /\ \A r \in Rows, l \in Labels, a \in Anchors, t \in BOOLEAN :
       [at |-> "create", row |-> r, label |-> l, anchor |-> a, taken |-> t] \in Requesting
  /\ \A r \in Rows, l \in Labels, t \in BOOLEAN :
       [at |-> "rename", row |-> r, label |-> l, taken |-> t] \in Requesting
  /\ \A r \in Problems, a, b \in Anchors, F \in SUBSET {"brand", "model"} :
       [at |-> "anchor", row |-> r, new |-> a, fields |-> F, seen |-> b] \in Requesting
  /\ \A r \in Rows, t \in BOOLEAN : [at |-> "delete", row |-> r, blocked |-> t] \in Requesting
  /\ \A i \in Interventions, s \in Sheets :
       [at |-> "tariff", row |-> i, sheet |-> s] \in Requesting
  /\ \A i \in Interventions, n \in Nat, e \in Edits, s \in Sheets :
       [at |-> "pricing", row |-> i, id |-> n, edit |-> e, seen |-> s] \in Requesting
  /\ \A i \in Interventions, k, n \in Nat :
       [at |-> "drop", row |-> i, id |-> k, seen |-> n] \in Requesting
  /\ \A x, y \in Refs : [at |-> "demande", body |-> x, refs |-> y] \in Requesting
  /\ \A x \in Refs : [at |-> "made", body |-> x] \in Requesting
  /\ \A i \in Interventions : [at |-> "quote", row |-> i] \in Requesting
BY DEF Requesting

LEMMA Held ==
  ASSUME TypeOK, NEW q \in Requests
  PROVE  /\ req[q].at = "create" => /\ req[q].row \in Rows /\ req[q].label \in Labels
                                    /\ req[q].anchor \in Anchors /\ req[q].taken \in BOOLEAN
         /\ req[q].at = "rename" => /\ req[q].row \in Rows /\ req[q].label \in Labels
                                    /\ req[q].taken \in BOOLEAN
         /\ req[q].at = "anchor" => /\ req[q].row \in Problems /\ req[q].new \in Anchors
                                    /\ req[q].fields \in SUBSET {"brand", "model"}
                                    /\ req[q].seen \in Anchors
         /\ req[q].at = "delete" => req[q].row \in Rows /\ req[q].blocked \in BOOLEAN
         /\ req[q].at = "tariff" => req[q].row \in Interventions /\ req[q].sheet \in Sheets
         /\ req[q].at = "pricing" => /\ req[q].row \in Interventions /\ req[q].edit \in Edits
                                     /\ req[q].seen \in Sheets
         /\ req[q].at = "drop" => req[q].row \in Interventions /\ req[q].seen \in Nat
         /\ req[q].at = "demande" => req[q].body \in Refs /\ req[q].refs \in Refs
         /\ req[q].at = "made" => req[q].body \in Refs
         /\ req[q].at = "quote" => req[q].row \in Interventions
<1>1. req[q] \in Requesting
  BY DEF TypeOK
<1> QED BY <1>1 DEF Requesting

\* What the operators on records give.
LEMMA Edited ==
  ASSUME NEW s \in Sheets, NEW e \in Edits
  PROVE  Edit(s, e) \in Sheets
BY PricesAssumption DEF Edit, Sheets, Prices

LEMMA OntoTyped ==
  ASSUME NEW a \in Anchors, NEW b \in Anchors, NEW F
  PROVE  Onto(a, b, F) \in Anchors
BY DEF Onto, Anchors

LEMMA AnchorFields ==
  ASSUME NEW a \in Anchors
  PROVE  a.brand \in Brands \cup {None} /\ a.model \in Models \cup {None}
BY DEF Anchors

LEMMA NoAnchorTyped == NoAnchor \in Anchors /\ NoAnchor.brand = None /\ NoAnchor.model = None
BY DEF NoAnchor, Anchors

LEMMA RefFields ==
  ASSUME NEW x \in Refs
  PROVE  /\ x.domain \in Domains \cup {None} /\ x.brand \in Brands \cup {None}
         /\ x.model \in Models \cup {None} /\ x.problem \in Problems \cup {None}
         /\ x.family \in Families \cup {None} /\ x.city \in Cities \cup {None}
         /\ x.zone \in Zones \cup {None}
         /\ DOMAIN x = {"domain", "brand", "model", "problem", "family", "city", "zone"}
BY DEF Refs

LEMMA ResolvedTyped ==
  ASSUME TypeOK, NEW x \in Refs
  PROVE  /\ Resolved(x) \in Refs
         /\ Resolved(x).domain = IF x.problem # None THEN Parent[x.problem]
                                 ELSE IF x.brand # None THEN Parent[x.brand] ELSE x.domain
         /\ Resolved(x).brand = IF x.model # None THEN Parent[x.model]
                                ELSE IF x.brand # None THEN x.brand
                                ELSE IF x.problem # None THEN anchor[x.problem].brand ELSE None
         /\ Resolved(x).model = IF x.model = None /\ x.problem # None
                                THEN anchor[x.problem].model ELSE x.model
         /\ Resolved(x).city = IF x.zone # None THEN Parent[x.zone] ELSE x.city
         /\ Resolved(x).problem = x.problem /\ Resolved(x).family = x.family
         /\ Resolved(x).zone = x.zone
<1> DEFINE d == IF x.problem # None THEN Parent[x.problem]
                ELSE IF x.brand # None THEN Parent[x.brand] ELSE x.domain
           bb == IF x.model # None THEN Parent[x.model] ELSE x.brand
           b == IF bb = None /\ x.problem # None THEN anchor[x.problem].brand ELSE bb
           m == IF x.model = None /\ x.problem # None THEN anchor[x.problem].model ELSE x.model
           c == IF x.zone # None THEN Parent[x.zone] ELSE x.city
<1>1. Resolved(x) = [x EXCEPT !.domain = d, !.brand = b, !.model = m, !.city = c]
  BY DEF Resolved
<1>2. x.problem # None => anchor[x.problem] \in Anchors
  BY RefFields, Parents DEF TypeOK
<1>3. /\ d \in Domains \cup {None} /\ b \in Brands \cup {None} /\ m \in Models \cup {None}
      /\ c \in Cities \cup {None}
  BY <1>2, RefFields, Parents, AnchorFields
<1>4. x.model # None => Parent[x.model] # None
  BY RefFields, Parents, RowsAssumption
<1>5. b = IF x.model # None THEN Parent[x.model]
          ELSE IF x.brand # None THEN x.brand
          ELSE IF x.problem # None THEN anchor[x.problem].brand ELSE None
  BY <1>4
<1> HIDE DEF d, b, m, c
<1>6. /\ Resolved(x) \in Refs /\ Resolved(x).domain = d /\ Resolved(x).brand = b
      /\ Resolved(x).model = m /\ Resolved(x).city = c
      /\ Resolved(x).problem = x.problem /\ Resolved(x).family = x.family
      /\ Resolved(x).zone = x.zone
  BY <1>1, <1>3 DEF Refs
<1> QED BY <1>5, <1>6 DEF d, m, c

LEMMA Torn ==
  ASSUME TypeOK, NEW r, NEW stale, Tear(r, stale), stale => r \in Rows
  PROVE  torn' \subseteq Rows /\ torn \subseteq torn'
BY DEF TypeOK, Tear

\* What falls with a row, and what becomes of a reference.
Falling(r) == {s \in Rows : Live(s) /\ (s = r \/ r \in Line[s])}

Cleared(r, s) == IF s \in Falling(r) THEN None ELSE s

LEMMA Vanished ==
  ASSUME TypeOK, NEW r, Vanish(r)
  PROVE  /\ row' \in [Rows -> {"unborn", "active", "inactive", "gone"}]
         /\ \A s \in Rows : row'[s] = IF s \in Falling(r) THEN "gone" ELSE row[s]
         /\ anchor' \in [Rows -> Anchors]
         /\ \A s \in Rows : /\ anchor'[s].brand = Cleared(r, anchor[s].brand)
                            /\ anchor'[s].model = Cleared(r, anchor[s].model)
         /\ tariff' \in [Interventions -> Tariffs]
         /\ \A i \in Interventions :
              \/ tariff'[i] = tariff[i]
              \/ /\ i \in Falling(r) /\ tariff[i].at = "live" /\ tariff'[i].at = "none"
         /\ demande' \in [Requests -> Refs]
         /\ \A q \in Requests :
              /\ demande'[q].domain = Cleared(r, demande[q].domain)
              /\ demande'[q].brand = Cleared(r, demande[q].brand)
              /\ demande'[q].model = Cleared(r, demande[q].model)
              /\ demande'[q].problem = Cleared(r, demande[q].problem)
              /\ demande'[q].city = Cleared(r, demande[q].city)
              /\ demande'[q].zone = Cleared(r, demande[q].zone)
              /\ demande'[q].family = demande[q].family
         /\ quoted' = quoted \ Falling(r)
<1> DEFINE S == {s \in Rows : Live(s) /\ (s = r \/ r \in Line[s])}
           N(s) == IF s \in S THEN None ELSE s
<1>0. S = Falling(r) /\ \A s : N(s) = Cleared(r, s)
  BY DEF Falling, Cleared
<1>1. /\ row' = [s \in Rows |-> IF s \in S THEN "gone" ELSE row[s]]
      /\ anchor' = [s \in Rows |-> [brand |-> N(anchor[s].brand), model |-> N(anchor[s].model)]]
      /\ tariff' = [i \in Interventions |->
                      IF i \in S /\ tariff[i].at = "live"
                      THEN [tariff[i] EXCEPT !.at = "none"] ELSE tariff[i]]
      /\ demande' = [q \in Requests |->
                      [demande[q] EXCEPT !.domain = N(@), !.brand = N(@),
                                         !.model = N(@), !.problem = N(@),
                                         !.city = N(@), !.zone = N(@)]]
      /\ quoted' = quoted \ S
  BY DEF Vanish
<1>2. \A X : \A s \in X \cup {None} : N(s) \in X \cup {None}
  OBVIOUS
<1> HIDE DEF S, N
<1>3. /\ row' \in [Rows -> {"unborn", "active", "inactive", "gone"}]
      /\ \A s \in Rows : row'[s] = IF s \in S THEN "gone" ELSE row[s]
  BY <1>1 DEF TypeOK
<1>4. /\ anchor' \in [Rows -> Anchors]
      /\ \A s \in Rows : /\ anchor'[s].brand = N(anchor[s].brand)
                         /\ anchor'[s].model = N(anchor[s].model)
  <2>1. \A s \in Rows : /\ anchor[s].brand \in Brands \cup {None}
                        /\ anchor[s].model \in Models \cup {None}
    BY AnchorFields DEF TypeOK
  <2> QED BY <1>1, <1>2, <2>1 DEF Anchors
<1>5. /\ tariff' \in [Interventions -> Tariffs]
      /\ \A i \in Interventions :
           \/ tariff'[i] = tariff[i]
           \/ i \in S /\ tariff[i].at = "live" /\ tariff'[i].at = "none"
  BY <1>1 DEF TypeOK, Tariffs
<1>6. ASSUME NEW q \in Requests
      PROVE  /\ demande'[q] \in Refs
             /\ demande'[q].domain = N(demande[q].domain)
             /\ demande'[q].brand = N(demande[q].brand)
             /\ demande'[q].model = N(demande[q].model)
             /\ demande'[q].problem = N(demande[q].problem)
             /\ demande'[q].city = N(demande[q].city)
             /\ demande'[q].zone = N(demande[q].zone)
             /\ demande'[q].family = demande[q].family
  <2> DEFINE x == demande[q]
             d == N(x.domain)
             b == N(x.brand)
             m == N(x.model)
             p == N(x.problem)
             c == N(x.city)
             z == N(x.zone)
  <2>1. demande'[q] = [x EXCEPT !.domain = d, !.brand = b, !.model = m, !.problem = p,
                                !.city = c, !.zone = z]
    BY <1>1
  <2>2. x \in Refs
    BY DEF TypeOK
  <2>3. /\ d \in Domains \cup {None} /\ b \in Brands \cup {None} /\ m \in Models \cup {None}
        /\ p \in Problems \cup {None} /\ c \in Cities \cup {None} /\ z \in Zones \cup {None}
    BY <1>2, <2>2, RefFields
  <2> HIDE DEF x, d, b, m, p, c, z
  <2>4. /\ demande'[q] \in Refs /\ demande'[q].domain = d /\ demande'[q].brand = b
        /\ demande'[q].model = m /\ demande'[q].problem = p /\ demande'[q].city = c
        /\ demande'[q].zone = z /\ demande'[q].family = x.family
    BY <2>1, <2>2, <2>3 DEF Refs
  <2> QED BY <2>4 DEF x, d, b, m, p, c, z
<1>7. demande' \in [Requests -> Refs]
  BY <1>1, <1>6
<1> QED BY <1>0, <1>1, <1>3, <1>4, <1>5, <1>6, <1>7

-----------------------------------------------------------------------------
(* The invariant.                                                          *)

\* The part of Anchored that does not change.
Coherent(r, a) ==
  /\ a.model # None => a.brand # None /\ Parent[a.model] = a.brand
  /\ a.brand # None => Parent[a.brand] = Parent[r]

\* What DemandesCoherent says of the columns of a request.
Device(x, body) ==
  /\ x.zone # None => x.city = Parent[x.zone]
  /\ (x.model # None /\ body.problem \notin torn) => x.brand = Parent[x.model]
  /\ x.problem # None => x.domain = Parent[x.problem]
  /\ (x.brand # None /\ body.brand # None) => x.domain = Parent[x.brand]

\* What a call carries from its check to its write.
Sound(x) ==
  /\ x.at = "create" => /\ ~x.taken /\ Coherent(x.row, x.anchor)
                        /\ x.anchor # NoAnchor => x.row \in Problems
  /\ x.at = "rename" => ~x.taken
  /\ x.at = "anchor" => Coherent(x.row, Onto(x.seen, x.new, x.fields))
  /\ x.at = "tariff" => Valid(x.sheet.prices)
  /\ x.at = "pricing" => Valid(Edit(x.seen, x.edit).prices)
  /\ x.at = "demande" => Device(x.refs, x.body)

Calls == \A q \in Requests :
           /\ Sound(req[q])
           /\ req[q].at # "made" => demande[q] = NoRefs

\* The foreign keys: no row without its parent.
Rooted == \A r \in Rows : Live(r) => Exists(Parent[r])

\* Only a problem has an anchor, and not before it is created.
Bare == \A r \in Rows : (r \notin Problems \/ row[r] = "unborn") => anchor[r] = NoAnchor

Inv == /\ TypeOK /\ Calls /\ Rooted /\ Bare
       /\ PricesOrdered /\ JournalTells /\ CatalogueCoherent

\* A call that reads and checks, and writes nothing yet.
Reading(q) ==
  /\ UNCHANGED Table
  /\ \E x \in Requesting : Awaits(q, x) /\ Sound(x) /\ x.at # "made"

LEMMA AnchoredCoherent ==
  ASSUME NEW r, NEW a, Anchored(r, a)
  PROVE  Coherent(r, a)
BY DEF Anchored, Coherent

LEMMA Creating ==
  ASSUME TypeOK, NEW q \in Requests, NEW r \in Rows, NEW l \in Labels, NEW a \in Anchors,
         a # NoAnchor => r \in Problems, CreateRead(q, r, l, a)
  PROVE  Reading(q)
<1> DEFINE x == [at |-> "create", row |-> r, label |-> l, anchor |-> a, taken |-> Taken(r, l, a)]
<1>1. ~Taken(r, l, a) /\ Coherent(r, a) /\ Awaits(q, x) /\ UNCHANGED Table
  BY AnchoredCoherent DEF CreateRead, Table
<1>2. Taken(r, l, a) \in BOOLEAN
  BY DEF Taken
<1>3. x \in Requesting
  BY <1>2, Asked
<1>4. Sound(x) /\ x.at # "made"
  BY <1>1 DEF Sound
<1> QED BY <1>1, <1>3, <1>4 DEF Reading

LEMMA Renaming ==
  ASSUME TypeOK, NEW q \in Requests, NEW r \in Rows, NEW l \in Labels, RenameRead(q, r, l)
  PROVE  Reading(q)
<1> DEFINE x == [at |-> "rename", row |-> r, label |-> l, taken |-> Taken(r, l, anchor[r])]
<1>1. ~Taken(r, l, anchor[r]) /\ Awaits(q, x) /\ UNCHANGED Table
  BY DEF RenameRead, Table
<1>2. Taken(r, l, anchor[r]) \in BOOLEAN
  BY DEF Taken
<1>3. x \in Requesting
  BY <1>2, Asked
<1>4. Sound(x) /\ x.at # "made"
  BY <1>1 DEF Sound
<1> QED BY <1>1, <1>3, <1>4 DEF Reading

LEMMA Anchoring ==
  ASSUME TypeOK, NEW q \in Requests, NEW r \in Problems, NEW a \in Anchors,
         NEW F \in SUBSET {"brand", "model"}, AnchorRead(q, r, a, F)
  PROVE  Reading(q)
<1> DEFINE x == [at |-> "anchor", row |-> r, new |-> a, fields |-> F, seen |-> anchor[r]]
<1>1. Coherent(r, Onto(anchor[r], a, F)) /\ Awaits(q, x) /\ UNCHANGED Table
  BY AnchoredCoherent DEF AnchorRead, Table
<1>2. anchor[r] \in Anchors
  BY Parents DEF TypeOK
<1>3. x \in Requesting
  BY <1>2, Asked
<1>4. Sound(x) /\ x.at # "made"
  BY <1>1 DEF Sound
<1> QED BY <1>1, <1>3, <1>4 DEF Reading

LEMMA Deleting ==
  ASSUME NEW q \in Requests, NEW r \in Rows, DeleteRead(q, r)
  PROVE  Reading(q)
<1>0. Counted(r) \subseteq BOOLEAN
  BY DEF Counted, Blocked, Requested
<1>1. PICK b \in BOOLEAN : Awaits(q, [at |-> "delete", row |-> r, blocked |-> b])
  BY <1>0 DEF DeleteRead
<1> DEFINE x == [at |-> "delete", row |-> r, blocked |-> b]
<1>4. Awaits(q, x) /\ UNCHANGED Table
  BY <1>1 DEF DeleteRead, Table
<1>2. x \in Requesting
  BY <1>1, Asked
<1>3. Sound(x) /\ x.at # "made"
  BY DEF Sound
<1> QED BY <1>4, <1>2, <1>3 DEF Reading

LEMMA Pricing ==
  ASSUME TypeOK, NEW q \in Requests, NEW i \in Interventions,
         \/ \E p \in Posted : TariffRead(q, i, p)
         \/ \E e \in Edits : PricingRead(q, i, e)
         \/ DropRead(q, i)
         \/ QuoteRead(q, i)
  PROVE  Reading(q)
<1>0. tariff[i].sheet \in Sheets /\ tariff[i].entries \in Nat /\ tariff[i].id \in Nat
  BY DEF TypeOK, Tariffs
<1>1. ASSUME NEW p \in Posted, TariffRead(q, i, p) PROVE Reading(q)
  <2> p \in Prices
    BY PricesAssumption
  <2> DEFINE s == [prices |-> p, active |-> TRUE]
             x == [at |-> "tariff", row |-> i, sheet |-> s]
  <2>1. Awaits(q, x) /\ UNCHANGED Table /\ Valid(p)
    BY <1>1 DEF TariffRead, Table
  <2>2. s \in Sheets /\ s.prices = p
    BY DEF Sheets
  <2> HIDE DEF s
  <2>3. x \in Requesting
    BY <2>2, Asked
  <2>4. Sound(x) /\ x.at # "made"
    BY <2>1, <2>2 DEF Sound
  <2> QED BY <2>1, <2>3, <2>4 DEF Reading
<1>2. ASSUME NEW e \in Edits, PricingRead(q, i, e) PROVE Reading(q)
  <2> DEFINE x == [at |-> "pricing", row |-> i, id |-> tariff[i].id, edit |-> e,
                    seen |-> tariff[i].sheet]
  <2>1. Awaits(q, x) /\ UNCHANGED Table /\ Valid(Edit(tariff[i].sheet, e).prices)
    BY <1>2 DEF PricingRead, Table
  <2>2. x \in Requesting
    BY <1>0, Asked
  <2>3. Sound(x) /\ x.at # "made"
    BY <2>1 DEF Sound
  <2> QED BY <2>1, <2>2, <2>3 DEF Reading
<1>3. CASE DropRead(q, i)
  <2> DEFINE x == [at |-> "drop", row |-> i, id |-> tariff[i].id, seen |-> tariff[i].entries]
  <2>1. Awaits(q, x) /\ UNCHANGED Table
    BY <1>3 DEF DropRead, Table
  <2>2. x \in Requesting
    BY <1>0, Asked
  <2>3. Sound(x) /\ x.at # "made"
    BY DEF Sound
  <2> QED BY <2>1, <2>2, <2>3 DEF Reading
<1>4. CASE QuoteRead(q, i)
  <2> DEFINE x == [at |-> "quote", row |-> i]
  <2>1. Awaits(q, x) /\ UNCHANGED Table
    BY <1>4 DEF QuoteRead, Table
  <2>2. x \in Requesting
    BY Asked
  <2>3. Sound(x) /\ x.at # "made"
    BY DEF Sound
  <2> QED BY <2>1, <2>2, <2>3 DEF Reading
<1> QED BY <1>1, <1>2, <1>3, <1>4

\* What a body that is accepted is resolved to fits together.
LEMMA AcceptedFits ==
  ASSUME TypeOK, AnchorsCoherent, NEW x \in Refs, Accepts(x)
  PROVE  Device(Resolved(x), x)
<1> DEFINE y == Resolved(x)
           p == x.problem
<1>1. /\ y.domain = IF p # None THEN Parent[p]
                    ELSE IF x.brand # None THEN Parent[x.brand] ELSE x.domain
      /\ y.brand = IF x.model # None THEN Parent[x.model]
                   ELSE IF x.brand # None THEN x.brand
                   ELSE IF p # None THEN anchor[p].brand ELSE None
      /\ y.model = IF x.model = None /\ p # None THEN anchor[p].model ELSE x.model
      /\ y.city = IF x.zone # None THEN Parent[x.zone] ELSE x.city
      /\ y.problem = x.problem /\ y.zone = x.zone
  BY ResolvedTyped
<1> HIDE DEF y
<1>2. /\ p \in Problems \cup {None} /\ x.brand \in Brands \cup {None}
      /\ x.model \in Models \cup {None}
  BY RefFields
<1>3. /\ x.brand # None => Parent[x.brand] # None
      /\ x.model # None => Parent[x.model] # None
  BY <1>2, Parents, RowsAssumption
<1>4. /\ p # None => row[p] = "active"
      /\ (x.model # None /\ x.brand # None) => Parent[x.model] = x.brand
      /\ (p # None /\ x.brand # None) => Parent[p] = Parent[x.brand]
      /\ (p # None /\ x.brand # None /\ x.model = None /\ anchor[p].brand # None)
           => anchor[p].brand = x.brand
  BY <1>3 DEF Accepts, Active
<1>5. p # None /\ p \notin torn => Coherent(p, anchor[p])
  BY <1>2, <1>4, Parents, AnchoredCoherent DEF AnchorsCoherent, Live
<1>6. (y.model # None /\ x.problem \notin torn) => y.brand = Parent[y.model]
  BY <1>1, <1>4, <1>5 DEF Coherent
<1>7. (y.brand # None /\ x.brand # None) => y.domain = Parent[y.brand]
  BY <1>1, <1>4
<1> QED BY <1>1, <1>6, <1>7 DEF Device, y

LEMMA Demanding ==
  ASSUME TypeOK, AnchorsCoherent, NEW q \in Requests, NEW x \in Bodies, DemandeRead(q, x)
  PROVE  Reading(q)
<1> DEFINE y == Resolved(x)
           z == [at |-> "demande", body |-> x, refs |-> y]
<1>1. x \in Refs
  BY DEF Bodies, Refs
<1>2. y \in Refs /\ Device(y, x)
  BY <1>1, ResolvedTyped, AcceptedFits DEF DemandeRead
<1>3. Awaits(q, z) /\ UNCHANGED Table
  BY DEF DemandeRead, Table
<1> HIDE DEF y
<1>4. z \in Requesting
  BY <1>1, <1>2, Asked
<1>5. Sound(z) /\ z.at # "made"
  BY <1>2 DEF Sound
<1> QED BY <1>3, <1>4, <1>5 DEF Reading

\* Every call reads, but for the three whose write comes at once.
LEMMA BeginSteps ==
  ASSUME TypeOK, AnchorsCoherent, NEW q \in Requests, Begin(q)
  PROVE  \/ Reading(q)
         \/ \E r \in Rows, on \in BOOLEAN : Switch(q, r, on)
         \/ \E d \in Domains : HardDelete(q, d)
         \/ \E d \in Domains, l \in Labels : SeedStart(q, d, l)
<1> DEFINE Goal == \/ Reading(q)
                   \/ \E r \in Rows, on \in BOOLEAN : Switch(q, r, on)
                   \/ \E d \in Domains : HardDelete(q, d)
                   \/ \E d \in Domains, l \in Labels : SeedStart(q, d, l)
<1>1. ASSUME NEW r \in Rows, Manage(q, r) PROVE Goal
  BY <1>1, Creating, Renaming, NoAnchorTyped DEF Manage
<1>2. CASE OnDomain(q) \/ OnBrand(q) \/ OnModel(q) \/ OnFamily(q) \/ OnCity(q) \/ OnZone(q)
           \/ OnDiagnostic(q)
  BY <1>1, <1>2, Parents DEF OnDomain, OnBrand, OnModel, OnFamily, OnCity, OnZone, OnDiagnostic
<1>3. CASE OnProblem(q)
  BY <1>1, <1>3, Parents, Creating, Anchoring DEF OnProblem
<1>4. CASE OnIntervention(q)
  BY <1>1, <1>4, Parents, Pricing DEF OnIntervention
<1>5. CASE \E r \in Rows : DeleteRead(q, r)
  BY <1>5, Deleting
<1>6. CASE \/ \E d \in Seeded \cap Domains, l \in Labels : SeedStart(q, d, l)
           \/ \E x \in Bodies : DemandeRead(q, x)
           \/ \E i \in Interventions : QuoteRead(q, i)
  BY <1>6, Demanding, Pricing
<1> QED BY <1>2, <1>3, <1>4, <1>5, <1>6 DEF Begin

-----------------------------------------------------------------------------
(* What a step writes.                                                     *)

Tearing == torn \subseteq torn' /\ torn' \subseteq Rows

Made(r, l, a) ==
  /\ row' = [row EXCEPT ![r] = "active"]
  /\ label' = [label EXCEPT ![r] = l]
  /\ anchor' = [anchor EXCEPT ![r] = a]
  /\ UNCHANGED <<tariff, demande, quoted>> /\ Tearing
  /\ Exists(Parent[r]) /\ Exists(a.brand) /\ Exists(a.model)
  /\ Coherent(r, a)
  /\ a # NoAnchor => r \in Problems
  /\ Taken(r, l, a) => r \in torn'

Relabelled(r, l) ==
  /\ label' = [label EXCEPT ![r] = l]
  /\ UNCHANGED <<row, anchor, tariff, demande, quoted>> /\ Tearing
  /\ Taken(r, l, anchor[r]) => r \in torn'

Reanchored(r, a) ==
  /\ anchor' = [anchor EXCEPT ![r] = a]
  /\ UNCHANGED <<row, label, tariff, demande, quoted>> /\ Tearing
  /\ Live(r) /\ Exists(a.brand) /\ Exists(a.model)
  /\ r \notin torn' => Coherent(r, a)

Toggled(r, state) ==
  /\ Live(r)
  /\ row' = [row EXCEPT ![r] = state]
  /\ UNCHANGED <<label, anchor, tariff, demande, quoted, torn>>

Fell(r) ==
  /\ Live(r) /\ Vanish(r)
  /\ UNCHANGED label /\ Tearing
  /\ Kind[r] = "domain" \/ (Blocked(r) => r \in torn')

Repriced(i, t) ==
  /\ tariff' = [tariff EXCEPT ![i] = t]
  /\ UNCHANGED <<row, label, anchor, demande, quoted>> /\ Tearing
  /\ t.at = "live" /\ i \notin torn' => Valid(t.sheet.prices) /\ t.told = t.sheet
  /\ t.at = "none" /\ tariff[i].entries > 0 => i \in torn'

Demanded(q) ==
  /\ req[q].at = "demande"
  /\ req' = [req EXCEPT ![q] = [at |-> "made", body |-> req[q].body]]
  /\ demande' = [demande EXCEPT ![q] = req[q].refs]
  /\ UNCHANGED <<row, label, anchor, tariff, quoted>> /\ Tearing
  /\ \A f \in DOMAIN req[q].refs \ {"family"} : Exists(req[q].refs[f])
  /\ ~Exists(req[q].refs.family) => req[q].refs.family \in torn'

Quoted(i) ==
  /\ quoted' \subseteq quoted \cup {i} /\ quoted \subseteq quoted'
  /\ UNCHANGED <<row, label, anchor, tariff, demande, torn>>

Written ==
  \/ UNCHANGED Table
  \/ \E r \in Rows, l \in Labels, a \in Anchors : Made(r, l, a)
  \/ \E r \in Rows, l \in Labels : Relabelled(r, l)
  \/ \E r \in Problems, a \in Anchors : Reanchored(r, a)
  \/ \E r \in Rows, state \in {"active", "inactive"} : Toggled(r, state)
  \/ \E r \in Rows : Fell(r)
  \/ \E i \in Interventions, t \in Tariffs : Repriced(i, t)
  \/ \E i \in Interventions : Quoted(i)

\* The calls but for those that end, or begin to seed, are where they were.
Settled ==
  /\ req' \in [Requests -> Requesting]
  /\ \A q \in Requests :
       \/ req'[q] = req[q]
       \/ req[q].at # "made" /\ req'[q].at \in {"done", "seed"}

LEMMA EndsSettled ==
  ASSUME TypeOK, NEW q \in Requests, req[q].at # "made", Ends(q)
  PROVE  Settled
<1>1. [at |-> "done"] \in Requesting
  BY Asked
<1> QED BY <1>1 DEF Settled, Ends, TypeOK

LEMMA TearingTorn ==
  ASSUME TypeOK, NEW r, NEW stale \in BOOLEAN, Tear(r, stale), stale => r \in Rows
  PROVE  Tearing /\ (stale => r \in torn')
BY DEF TypeOK, Tear, Tearing

LEMMA CreateWrites ==
  ASSUME TypeOK, Calls, NEW q \in Requests, CreateCommit(q)
  PROVE  Settled /\ Written
<1> DEFINE x == req[q]
           r == x.row
           l == x.label
           a == x.anchor
<1>1. /\ r \in Rows /\ l \in Labels /\ a \in Anchors /\ x.taken = FALSE
      /\ Coherent(r, a) /\ (a # NoAnchor => r \in Problems)
  BY Held DEF CreateCommit, Calls, Sound
<1>2. Settled
  BY EndsSettled DEF CreateCommit
<1>3. UNCHANGED <<tariff, demande, quoted>>
  BY DEF CreateCommit
<1>4. \/ UNCHANGED <<row, label, anchor, torn>>
      \/ /\ row' = [row EXCEPT ![r] = "active"] /\ label' = [label EXCEPT ![r] = l]
         /\ anchor' = [anchor EXCEPT ![r] = a] /\ Tear(r, Taken(r, l, a) # x.taken)
         /\ Exists(Parent[r]) /\ Exists(a.brand) /\ Exists(a.model)
  BY DEF CreateCommit
<1> HIDE DEF r, l, a
<1>5. CASE Tear(r, Taken(r, l, a) # x.taken) /\ ~UNCHANGED <<row, label, anchor, torn>>
  <2>1. Taken(r, l, a) \in BOOLEAN
    BY DEF Taken
  <2>2. Tearing /\ (Taken(r, l, a) => r \in torn')
    BY <1>1, <1>5, <2>1, TearingTorn
  <2>3. Made(r, l, a)
    BY <1>1, <1>3, <1>4, <1>5, <2>2 DEF Made
  <2> QED BY <1>1, <1>2, <2>3 DEF Written
<1> QED BY <1>2, <1>3, <1>4, <1>5 DEF Written, Table

LEMMA RenameWrites ==
  ASSUME TypeOK, Calls, NEW q \in Requests, RenameCommit(q)
  PROVE  Settled /\ Written
<1> DEFINE r == req[q].row
           l == req[q].label
           t == Taken(r, l, anchor[r])
<1>1. r \in Rows /\ l \in Labels /\ req[q].taken = FALSE
  BY Held DEF RenameCommit, Calls, Sound
<1>2. Settled
  BY EndsSettled DEF RenameCommit
<1>3. UNCHANGED <<row, anchor, tariff, demande, quoted>>
  BY DEF RenameCommit
<1>4. \/ UNCHANGED <<label, torn>>
      \/ label' = [label EXCEPT ![r] = l] /\ Tear(r, t # req[q].taken)
  BY DEF RenameCommit
<1> HIDE DEF r, l
<1>5. CASE label' = [label EXCEPT ![r] = l] /\ Tear(r, t # req[q].taken)
  <2>1. t \in BOOLEAN
    BY DEF Taken
  <2>2. Tearing /\ (t => r \in torn')
    BY <1>1, <1>5, <2>1, TearingTorn
  <2>3. Relabelled(r, l)
    BY <1>3, <1>5, <2>2 DEF Relabelled
  <2> QED BY <1>1, <1>2, <2>3 DEF Written
<1> QED BY <1>2, <1>3, <1>4, <1>5 DEF Written, Table

LEMMA AnchorWrites ==
  ASSUME TypeOK, Calls, NEW q \in Requests, AnchorCommit(q)
  PROVE  Settled /\ Written
<1> DEFINE x == req[q]
           r == x.row
           a == Onto(anchor[r], x.new, x.fields)
           stale == anchor[r] # x.seen \/ Taken(r, label[r], a)
<1>1. /\ r \in Problems /\ r \in Rows /\ x.new \in Anchors
      /\ Coherent(r, Onto(x.seen, x.new, x.fields))
  BY Held, Parents DEF AnchorCommit, Calls, Sound
<1>2. a \in Anchors
  BY <1>1, OntoTyped DEF TypeOK
<1>3. Settled
  BY EndsSettled DEF AnchorCommit
<1>4. UNCHANGED <<row, label, tariff, demande, quoted>>
  BY DEF AnchorCommit
<1>5. \/ UNCHANGED <<anchor, torn>>
      \/ /\ anchor' = [anchor EXCEPT ![r] = a] /\ Tear(r, stale)
         /\ Live(r) /\ Exists(a.brand) /\ Exists(a.model)
  BY DEF AnchorCommit
<1>6. ~stale => Coherent(r, a)
  BY <1>1
<1>7. stale \in BOOLEAN
  BY DEF Taken
<1> HIDE DEF a, r, stale
<1>8. CASE /\ anchor' = [anchor EXCEPT ![r] = a] /\ Tear(r, stale)
           /\ Live(r) /\ Exists(a.brand) /\ Exists(a.model)
  <2>1. Tearing /\ (stale => r \in torn')
    BY <1>1, <1>7, <1>8, TearingTorn
  <2>2. Reanchored(r, a)
    BY <1>4, <1>6, <1>8, <2>1 DEF Reanchored
  <2> QED BY <1>1, <1>2, <1>3, <2>2 DEF Written
<1> QED BY <1>3, <1>4, <1>5, <1>8 DEF Written, Table

LEMMA DeleteWrites ==
  ASSUME TypeOK, NEW q \in Requests, DeleteCommit(q)
  PROVE  Settled /\ Written
<1> DEFINE r == req[q].row
<1>1. r \in Rows
  BY Held DEF DeleteCommit
<1>2. Settled /\ UNCHANGED label
  BY EndsSettled DEF DeleteCommit
<1>3. \/ Live(r) /\ Vanish(r) /\ Tear(r, Blocked(r))
      \/ /\ Live(r) /\ row' = [row EXCEPT ![r] = "inactive"]
         /\ UNCHANGED <<anchor, tariff, demande, quoted, torn>>
      \/ UNCHANGED <<row, anchor, tariff, demande, quoted, torn>>
  BY DEF DeleteCommit
<1> HIDE DEF r
<1>4. CASE Live(r) /\ Vanish(r) /\ Tear(r, Blocked(r))
  <2>1. Blocked(r) \in BOOLEAN
    BY DEF Blocked, Requested
  <2>2. Tearing /\ (Blocked(r) => r \in torn')
    BY <1>1, <1>4, <2>1, TearingTorn
  <2>3. Fell(r)
    BY <1>2, <1>4, <2>2 DEF Fell
  <2> QED BY <1>1, <1>2, <2>3 DEF Written
<1>5. CASE /\ Live(r) /\ row' = [row EXCEPT ![r] = "inactive"]
           /\ UNCHANGED <<anchor, tariff, demande, quoted, torn>>
  <2>1. Toggled(r, "inactive")
    BY <1>2, <1>5 DEF Toggled
  <2> QED BY <1>1, <1>2, <2>1 DEF Written
<1> QED BY <1>2, <1>3, <1>4, <1>5 DEF Written, Table

\* A tariff that is written, with what makes its journal true.
LEMMA Repricing ==
  ASSUME TypeOK, NEW i \in Interventions, NEW at \in {"live", "none"}, NEW k \in Nat,
         NEW s \in Sheets, NEW n \in Nat, NEW h \in Sheets,
         tariff' = [tariff EXCEPT ![i] = [at |-> at, id |-> k, sheet |-> s, entries |-> n, told |-> h]],
         UNCHANGED <<row, label, anchor, demande, quoted>>, Tearing,
         at = "live" /\ i \notin torn' => Valid(s.prices) /\ h = s,
         at = "none" /\ tariff[i].entries > 0 => i \in torn'
  PROVE  Written
<1> DEFINE t == [at |-> at, id |-> k, sheet |-> s, entries |-> n, told |-> h]
<1>1. t \in Tariffs
  BY DEF Tariffs
<1>2. Repriced(i, t)
  BY DEF Repriced
<1> QED BY <1>1, <1>2 DEF Written

LEMMA TariffWrites ==
  ASSUME TypeOK, Calls, NEW q \in Requests, TariffCommit(q)
  PROVE  Settled /\ Written
<1> DEFINE i == req[q].row
           x == req[q].sheet
           k == tariff[i].id + 1
<1>1. i \in Interventions /\ x \in Sheets /\ Valid(x.prices)
  BY Held DEF TariffCommit, Calls, Sound
<1>2. Settled
  BY EndsSettled DEF TariffCommit
<1>3. UNCHANGED <<row, label, anchor, demande, quoted, torn>>
  BY DEF TariffCommit
<1>4. \/ tariff' = [tariff EXCEPT ![i] = [at |-> "live", id |-> k, sheet |-> x,
                                          entries |-> 1, told |-> x]]
      \/ tariff' = tariff
  BY DEF TariffCommit, Tariff
<1>7. k \in Nat
  BY <1>1 DEF TypeOK, Tariffs
<1>5. Tearing
  BY <1>3 DEF Tearing, TypeOK
<1> HIDE DEF i, x, k
<1>6. CASE tariff' = [tariff EXCEPT ![i] = [at |-> "live", id |-> k, sheet |-> x,
                                            entries |-> 1, told |-> x]]
  <2>1. Written
    BY <1>1, <1>3, <1>5, <1>6, <1>7, Repricing
  <2> QED BY <1>2, <2>1
<1> QED BY <1>2, <1>3, <1>4, <1>6 DEF Written, Table

LEMMA PricingWrites ==
  ASSUME TypeOK, Calls, NEW q \in Requests, PricingCommit(q)
  PROVE  Settled /\ Written
<1> DEFINE x == req[q]
           i == x.row
           old == tariff[i]
           s == Edit(old.sheet, x.edit)
           h == Edit(x.seen, x.edit)
           n == old.entries + 1
           k == old.id
           t == [at |-> "live", id |-> k, sheet |-> s, entries |-> n, told |-> h]
<1>1. /\ i \in Interventions /\ x.edit \in Edits /\ x.seen \in Sheets /\ Valid(h.prices)
  BY Held DEF PricingCommit, Calls, Sound
<1>2. old.sheet \in Sheets /\ old.entries \in Nat /\ k \in Nat /\ i \in Rows
  BY <1>1, Parents DEF TypeOK, Tariffs
<1>3. Settled
  BY EndsSettled DEF PricingCommit
<1>4. UNCHANGED <<row, label, anchor, demande, quoted>>
  BY DEF PricingCommit
<1>5. \/ tariff' = [tariff EXCEPT ![i] = t] /\ Tear(i, old.sheet # x.seen)
      \/ UNCHANGED <<tariff, torn>>
  <2>1. tariff[i].at = "live" /\ k = x.id =>
          tariff' = [tariff EXCEPT ![i] = [at |-> "live", id |-> @.id,
                                           sheet |-> Edit(@.sheet, x.edit),
                                           entries |-> @.entries + 1,
                                           told |-> Edit(x.seen, x.edit)]]
    BY DEF PricingCommit
  <2>2. tariff[i].at = "live" /\ k = x.id => tariff' = [tariff EXCEPT ![i] = t]
    BY <1>1, <2>1 DEF TypeOK
  <2>3. \/ tariff[i].at = "live" /\ k = x.id /\ Tear(i, old.sheet # x.seen)
        \/ UNCHANGED <<tariff, torn>>
    BY DEF PricingCommit
  <2> QED BY <2>2, <2>3
<1>6. CASE tariff' = [tariff EXCEPT ![i] = t] /\ Tear(i, old.sheet # x.seen)
  <2>1. Tearing /\ (old.sheet # x.seen => i \in torn')
    BY <1>2, <1>6, TearingTorn
  <2>2. s \in Sheets /\ h \in Sheets
    BY <1>1, <1>2, Edited
  <2>3. i \notin torn' => s = h
    BY <2>1
  <2>4. n \in Nat
    BY <1>2
  <2> HIDE DEF s, h, n, k, i
  <2>5. Written
    BY <1>1, <1>2, <1>4, <1>6, <2>1, <2>2, <2>3, <2>4, Repricing
  <2> QED BY <1>3, <2>5
<1> QED BY <1>3, <1>4, <1>5, <1>6 DEF Written, Table

LEMMA DropWrites ==
  ASSUME TypeOK, PricesOrdered, JournalTells, NEW q \in Requests, DropCommit(q)
  PROVE  Settled /\ Written
<1> DEFINE i == req[q].row
           old == tariff[i]
           s == old.sheet
           h == old.told
           n == old.entries
           off(x) == [prices |-> x.prices, active |-> FALSE]
           m == n + 1
           k == old.id
           t == [at |-> "none", id |-> k, sheet |-> s, entries |-> n, told |-> h]
           u == [at |-> "live", id |-> k, sheet |-> off(s), entries |-> m, told |-> off(h)]
<1>1. i \in Interventions
  BY Held DEF DropCommit
<1>2. old \in Tariffs /\ s \in Sheets /\ n \in Nat /\ h \in Sheets /\ k \in Nat /\ i \in Rows
  BY <1>1, Parents DEF TypeOK, Tariffs
<1>3. Settled
  BY EndsSettled DEF DropCommit
<1>4. UNCHANGED <<row, label, anchor, demande, quoted>>
  BY DEF DropCommit
<1>5. /\ [old EXCEPT !.at = "none"] = t
      /\ [s EXCEPT !.active = FALSE] = off(s)
      /\ [h EXCEPT !.active = FALSE] = off(h)
  <2>1. \A x \in Sheets : \A v : [x EXCEPT !.active = v] = [prices |-> x.prices, active |-> v]
    BY DEF Sheets
  <2>2. \A x \in Tariffs : [x EXCEPT !.at = "none"]
          = [at |-> "none", id |-> x.id, sheet |-> x.sheet, entries |-> x.entries, told |-> x.told]
    BY DEF Tariffs
  <2> QED BY <1>2, <2>1, <2>2
<1>6. \/ /\ tariff' = [tariff EXCEPT ![i] = [@ EXCEPT !.at = "none"]]
         /\ Tear(i, n # 0)
      \/ /\ old.at = "live"
         /\ tariff' = [tariff EXCEPT ![i] =
                         [at |-> "live", id |-> @.id, sheet |-> [@.sheet EXCEPT !.active = FALSE],
                          entries |-> @.entries + 1,
                          told |-> [@.told EXCEPT !.active = FALSE]]]
         /\ UNCHANGED torn
      \/ UNCHANGED <<tariff, torn>>
  BY DEF DropCommit
<1>7. \/ tariff' = [tariff EXCEPT ![i] = t] /\ Tear(i, n # 0)
      \/ old.at = "live" /\ tariff' = [tariff EXCEPT ![i] = u] /\ UNCHANGED torn
      \/ UNCHANGED <<tariff, torn>>
  <2>1. tariff' = [tariff EXCEPT ![i] = [@ EXCEPT !.at = "none"]]
          => tariff' = [tariff EXCEPT ![i] = [old EXCEPT !.at = "none"]]
    BY <1>1 DEF TypeOK
  <2>2. tariff' = [tariff EXCEPT ![i] =
                     [at |-> "live", id |-> @.id, sheet |-> [@.sheet EXCEPT !.active = FALSE],
                      entries |-> @.entries + 1, told |-> [@.told EXCEPT !.active = FALSE]]]
          => tariff' = [tariff EXCEPT ![i] =
                          [at |-> "live", id |-> k, sheet |-> [s EXCEPT !.active = FALSE],
                           entries |-> m, told |-> [h EXCEPT !.active = FALSE]]]
    BY <1>1 DEF TypeOK
  <2> HIDE DEF old, s, h, n, m, k, i, off
  <2> QED BY <1>5, <1>6, <2>1, <2>2
<1>8. CASE tariff' = [tariff EXCEPT ![i] = t] /\ Tear(i, n # 0)
  <2>1. Tearing /\ (n # 0 => i \in torn')
    BY <1>2, <1>8, TearingTorn
  <2>2. n > 0 => n # 0
    BY <1>2
  <2>3. tariff[i].entries = n
    OBVIOUS
  <2> HIDE DEF old, s, h, n, k, i
  <2>4. Written
    BY <1>1, <1>2, <1>4, <1>8, <2>1, <2>2, <2>3, Repricing
  <2> QED BY <1>3, <2>4
<1>9. CASE old.at = "live" /\ tariff' = [tariff EXCEPT ![i] = u] /\ UNCHANGED torn
  <2>1. off(s) \in Sheets /\ off(h) \in Sheets /\ off(s).prices = s.prices
    BY <1>2 DEF Sheets
  <2>2. i \notin torn => Valid(s.prices) /\ h = s
    BY <1>1, <1>9 DEF PricesOrdered, JournalTells
  <2>3. m \in Nat /\ Tearing
    BY <1>2, <1>9 DEF Tearing, TypeOK
  <2> DEFINE a == off(s)
             b == off(h)
  <2>4. i \notin torn' => Valid(a.prices) /\ b = a
    BY <1>9, <2>1, <2>2
  <2>5. a \in Sheets /\ b \in Sheets
        /\ tariff' = [tariff EXCEPT ![i] = [at |-> "live", id |-> k, sheet |-> a, entries |-> m, told |-> b]]
    BY <1>9, <2>1
  <2> HIDE DEF a, b, m, k, i
  <2>6. Written
    BY <1>1, <1>2, <1>4, <2>3, <2>4, <2>5, Repricing
  <2> QED BY <1>3, <2>6
<1> QED BY <1>3, <1>4, <1>7, <1>8, <1>9 DEF Written, Table

LEMMA SeedWrites ==
  ASSUME TypeOK, Bare, NEW q \in Requests,
         \/ \E l \in Labels : SeedDomain(q, l) \/ SeedBrands(q, l) \/ SeedProblems(q, l)
         \/ \E i \in Seeded \cap Interventions, p \in Prices : SeedTariff(q, i, p)
         \/ SeedEnd(q)
  PROVE  Settled /\ Written
<1>1. ASSUME req' = req PROVE Settled
  BY <1>1 DEF Settled, TypeOK
<1>2. ASSUME NEW l \in Labels, NEW r \in Rows, SeedRow(q, r, l) PROVE Settled /\ Written
  <2>1. Taken(r, l, NoAnchor) \in BOOLEAN
    BY DEF Taken
  <2>2. Tearing /\ (Taken(r, l, NoAnchor) => r \in torn')
    BY <1>2, <2>1, TearingTorn DEF SeedRow
  <2>3. anchor[r] = NoAnchor /\ anchor' = [anchor EXCEPT ![r] = NoAnchor]
    BY <1>2 DEF SeedRow, Bare, TypeOK
  <2>4. Coherent(r, NoAnchor) /\ Exists(NoAnchor.brand) /\ Exists(NoAnchor.model)
    BY NoAnchorTyped DEF Coherent, Exists
  <2>5. Made(r, l, NoAnchor)
    BY <1>2, <2>2, <2>3, <2>4 DEF SeedRow, Made
  <2> QED BY <1>1, <1>2, <2>5, NoAnchorTyped DEF SeedRow, Written
<1>3. ASSUME NEW i \in Interventions, NEW p \in Prices, SeedTariff(q, i, p)
      PROVE  Settled /\ Written
  <2> DEFINE x == [prices |-> p, active |-> TRUE]
             k == tariff[i].id + 1
  <2>1. /\ tariff' = [tariff EXCEPT ![i] = [at |-> "live", id |-> k, sheet |-> x,
                                            entries |-> 0, told |-> x]]
        /\ Valid(p) /\ req' = req
        /\ UNCHANGED <<row, label, anchor, demande, quoted, torn>>
    BY <1>3 DEF SeedTariff, Tariff
  <2>2. x \in Sheets /\ x.prices = p
    BY DEF Sheets
  <2>3. Tearing
    BY <2>1 DEF Tearing, TypeOK
  <2>5. k \in Nat
    BY DEF TypeOK, Tariffs
  <2> HIDE DEF x, k
  <2>4. Written
    BY <2>1, <2>2, <2>3, <2>5, Repricing
  <2> QED BY <1>1, <2>1, <2>4
<1>4. CASE SeedEnd(q)
  BY <1>4, EndsSettled DEF SeedEnd, Written, Table
<1> QED BY <1>2, <1>3, <1>4, Parents DEF SeedDomain, SeedBrands, SeedProblems

LEMMA DemandeWrites ==
  ASSUME TypeOK, NEW q \in Requests, DemandeCommit(q)
  PROVE  Demanded(q) \/ (Settled /\ Written)
<1> DEFINE x == req[q].refs
<1>1. x \in Refs
  BY Held DEF DemandeCommit
<1>2. CASE \A f \in DOMAIN x \ {"family"} : Exists(x[f])
  <2>1. /\ Tear(x.family, ~Exists(x.family)) /\ demande' = [demande EXCEPT ![q] = x]
        /\ req' = [req EXCEPT ![q] = [at |-> "made", body |-> req[q].body]]
        /\ UNCHANGED <<row, label, anchor, tariff, quoted>> /\ req[q].at = "demande"
    BY <1>2 DEF DemandeCommit
  <2>2. ~Exists(x.family) => x.family \in Rows
    BY <1>1, RefFields, Parents DEF Exists
  <2>3. Exists(x.family) \in BOOLEAN
    BY DEF Exists, Live
  <2>4. Tearing /\ (~Exists(x.family) => x.family \in torn')
    BY <2>1, <2>2, <2>3, TearingTorn
  <2> QED BY <1>2, <2>1, <2>4 DEF Demanded
<1>3. CASE ~\A f \in DOMAIN x \ {"family"} : Exists(x[f])
  <2>1. Ends(q) /\ UNCHANGED <<demande, torn>> /\ UNCHANGED <<row, label, anchor, tariff, quoted>>
        /\ req[q].at = "demande"
    BY <1>3 DEF DemandeCommit
  <2> QED BY <2>1, EndsSettled DEF Written, Table
<1> QED BY <1>2, <1>3

LEMMA CommitSteps ==
  ASSUME Inv, NEW q \in Requests, Commit(q)
  PROVE  Demanded(q) \/ (Settled /\ Written)
<1>0. TypeOK /\ Calls /\ Bare /\ PricesOrdered /\ JournalTells
  BY DEF Inv
<1>1. CASE QuoteCommit(q)
  <2>1. req[q].row \in Interventions /\ Settled
    BY <1>0, <1>1, Held, EndsSettled DEF QuoteCommit
  <2>2. Quoted(req[q].row)
    BY <1>1 DEF QuoteCommit, Quoted
  <2> QED BY <2>1, <2>2 DEF Written
<1> QED BY <1>0, <1>1, CreateWrites, RenameWrites, AnchorWrites, DeleteWrites, TariffWrites,
       PricingWrites, DropWrites, SeedWrites, DemandeWrites DEF Commit

\* Every step reads, writes or records a request.
LEMMA Steps ==
  ASSUME Inv, [Next]_vars
  PROVE  \/ \E q \in Requests : Reading(q)
         \/ \E q \in Requests : Demanded(q)
         \/ Settled /\ Written
<1>0. TypeOK /\ AnchorsCoherent
  BY DEF Inv, CatalogueCoherent
<1>1. ASSUME NEW q \in Requests, req[q].at = "new", NEW r \in Rows, NEW on \in BOOLEAN,
             Switch(q, r, on)
      PROVE  Settled /\ Written
  <2>1. Toggled(r, IF on THEN "active" ELSE "inactive")
    BY <1>1 DEF Switch, Toggled
  <2> QED BY <1>0, <1>1, <2>1, EndsSettled DEF Switch, Written
<1>2. ASSUME NEW q \in Requests, req[q].at = "new", NEW d \in Domains, HardDelete(q, d)
      PROVE  Settled /\ Written
  <2>1. d \in Rows /\ Kind[d] = "domain" /\ Tearing
    BY <1>0, <1>2 DEF Domains, Of, HardDelete, Tearing, TypeOK
  <2>2. Fell(d)
    BY <1>2, <2>1 DEF HardDelete, Fell
  <2> QED BY <1>0, <1>2, <2>1, <2>2, EndsSettled DEF HardDelete, Written
<1>3. ASSUME NEW q \in Requests, req[q].at = "new", NEW d \in Domains, NEW l \in Labels,
             SeedStart(q, d, l)
      PROVE  Settled /\ Written
  <2>1. d \in Rows /\ d \notin Problems
    BY DEF Domains, Problems, Of
  <2>2. Settled
    BY <1>0, <1>3, Asked DEF SeedStart, Awaits, Settled, TypeOK
  <2>3. CASE Live(d)
    <3>1. label' = [label EXCEPT ![d] = l] /\ Tear(d, Taken(d, l, NoAnchor))
          /\ UNCHANGED <<row, anchor, tariff, demande, quoted>>
      BY <1>3, <2>3 DEF SeedStart
    <3>2. Taken(d, l, NoAnchor) \in BOOLEAN
      BY DEF Taken
    <3>3. anchor[d] = NoAnchor
      BY <2>1 DEF Inv, Bare
    <3>4. Relabelled(d, l)
      BY <1>0, <2>1, <3>1, <3>2, <3>3, TearingTorn DEF Relabelled
    <3> QED BY <2>1, <2>2, <3>4 DEF Written
  <2>4. CASE ~Live(d)
    BY <1>3, <2>2, <2>4 DEF SeedStart, Written, Table
  <2> QED BY <2>3, <2>4
<1>4. CASE UNCHANGED vars
  BY <1>0, <1>4 DEF vars, Settled, Written, Table, TypeOK
<1>5. ASSUME NEW q \in Requests, req[q].at = "new", Begin(q)
      PROVE  Reading(q) \/ (Settled /\ Written)
  BY <1>0, <1>1, <1>2, <1>3, <1>5, BeginSteps
<1> QED BY <1>4, <1>5, CommitSteps DEF Next

-----------------------------------------------------------------------------
(* What a write keeps.                                                     *)

\* Who falls takes its children along.
LEMMA FallsWith ==
  ASSUME NEW r, NEW s \in Rows, Live(s), Parent[s] # None, Parent[s] \in Falling(r)
  PROVE  s \in Falling(r)
<1>1. Line[s] = Line[Parent[s]] \cup {Parent[s]}
  BY Lines
<1> QED BY <1>1 DEF Falling

\* Only a deletion ends a row or changes what a request refers to.
Keeping ==
  /\ \A s \in Rows : Live(s) => Live(s)'
  /\ \A s \in Rows : row'[s] = "unborn" => row[s] = "unborn"
  /\ demande' = demande
  /\ Tearing

LEMMA WrittenKeeps ==
  ASSUME TypeOK, Written
  PROVE  Keeping \/ \E r \in Rows : Fell(r)
<1>0. torn \subseteq torn /\ torn \subseteq Rows
  BY DEF TypeOK
<1>1. CASE UNCHANGED Table
  BY <1>0, <1>1 DEF Table, Keeping, Tearing, Live
<1>2. ASSUME NEW r \in Rows, NEW l, NEW a, Made(r, l, a) PROVE Keeping
  BY <1>2 DEF Made, Keeping, Live, TypeOK
<1>3. ASSUME NEW r \in Rows, NEW l, Relabelled(r, l) PROVE Keeping
  BY <1>3 DEF Relabelled, Keeping, Live
<1>4. ASSUME NEW r \in Problems, NEW a, Reanchored(r, a) PROVE Keeping
  BY <1>4 DEF Reanchored, Keeping, Live
<1>5. ASSUME NEW r \in Rows, NEW state \in {"active", "inactive"}, Toggled(r, state) PROVE Keeping
  BY <1>0, <1>5 DEF Toggled, Keeping, Tearing, Live, TypeOK
<1>6. ASSUME NEW i \in Interventions, NEW t, Repriced(i, t) PROVE Keeping
  BY <1>6 DEF Repriced, Keeping, Live
<1>7. ASSUME NEW i \in Interventions, Quoted(i) PROVE Keeping
  BY <1>0, <1>7 DEF Quoted, Keeping, Tearing, Live
<1> QED BY <1>1, <1>2, <1>3, <1>4, <1>5, <1>6, <1>7 DEF Written

LEMMA WrittenTears ==
  ASSUME TypeOK, Written
  PROVE  Tearing
BY WrittenKeeps DEF Keeping, Fell

LEMMA WrittenTyped ==
  ASSUME TypeOK, Settled, Written
  PROVE  TypeOK'
<1>0. req' \in [Requests -> Requesting] /\ torn' \subseteq Rows
  BY WrittenTears DEF Settled, Tearing
<1>1. CASE UNCHANGED Table
  BY <1>0, <1>1 DEF Table, TypeOK
<1>2. ASSUME NEW r \in Rows, NEW l \in Labels, NEW a \in Anchors, Made(r, l, a) PROVE TypeOK'
  BY <1>0, <1>2 DEF Made, TypeOK
<1>3. ASSUME NEW r \in Rows, NEW l \in Labels, Relabelled(r, l) PROVE TypeOK'
  BY <1>0, <1>3 DEF Relabelled, TypeOK
<1>4. ASSUME NEW r \in Problems, NEW a \in Anchors, Reanchored(r, a) PROVE TypeOK'
  BY <1>0, <1>4 DEF Reanchored, TypeOK
<1>5. ASSUME NEW r \in Rows, NEW state \in {"active", "inactive"}, Toggled(r, state) PROVE TypeOK'
  BY <1>0, <1>5 DEF Toggled, TypeOK
<1>6. ASSUME NEW i \in Interventions, NEW t \in Tariffs, Repriced(i, t) PROVE TypeOK'
  BY <1>0, <1>6 DEF Repriced, TypeOK
<1>7. ASSUME NEW i \in Interventions, Quoted(i) PROVE TypeOK'
  BY <1>0, <1>7 DEF Quoted, TypeOK
<1>8. ASSUME NEW r \in Rows, Fell(r) PROVE TypeOK'
  BY <1>0, <1>8, Vanished DEF Fell, TypeOK
<1> QED BY <1>1, <1>2, <1>3, <1>4, <1>5, <1>6, <1>7, <1>8 DEF Written

LEMMA WrittenCalls ==
  ASSUME TypeOK, Calls, Settled, Written
  PROVE  Calls'
<1> SUFFICES ASSUME NEW q \in Requests
             PROVE  Sound(req[q])' /\ (req[q].at # "made" => demande[q] = NoRefs)'
  BY DEF Calls
<1>1. torn \subseteq torn'
  BY WrittenTears DEF Tearing
<1>2. Sound(req[q])'
  <2>1. CASE req'[q] = req[q]
    BY <1>1, <2>1 DEF Calls, Sound, Device
  <2>2. CASE req'[q].at \in {"done", "seed"}
    BY <2>2 DEF Sound
  <2> QED BY <2>1, <2>2 DEF Settled
<1>3. ASSUME req'[q].at # "made" PROVE demande'[q] = NoRefs
  <2>1. demande[q] = NoRefs
    BY <1>3 DEF Settled, Calls
  <2>2. ASSUME NEW r \in Rows, Fell(r) PROVE demande'[q] = NoRefs
    <3>1. Cleared(r, None) = None
      BY RowsAssumption DEF Cleared
    <3>2. /\ demande'[q] \in Refs
          /\ demande'[q].domain = None /\ demande'[q].brand = None /\ demande'[q].model = None
          /\ demande'[q].problem = None /\ demande'[q].city = None /\ demande'[q].zone = None
          /\ demande'[q].family = None
      BY <2>1, <2>2, <3>1, Vanished DEF Fell, NoRefs
    <3> HIDE DEF Fell
    <3> QED BY <3>2 DEF Refs, NoRefs
  <2> QED BY <2>1, <2>2, WrittenKeeps DEF Keeping
<1> QED BY <1>2, <1>3

LEMMA WrittenRooted ==
  ASSUME TypeOK, Rooted, Written
  PROVE  Rooted'
<1> SUFFICES ASSUME NEW s \in Rows, Live(s)' PROVE Exists(Parent[s])'
  BY DEF Rooted
<1>1. ASSUME NEW r \in Rows, Fell(r) PROVE Exists(Parent[s])'
  <2>1. Live(s) /\ s \notin Falling(r)
    BY <1>1, Vanished DEF Fell, Live
  <2>2. ASSUME Parent[s] # None PROVE Live(Parent[s])'
    <3>1. Live(Parent[s]) /\ Parent[s] \in Rows
      BY <2>1, <2>2, Lines DEF Rooted, Exists
    <3>2. Parent[s] \notin Falling(r)
      BY <2>1, <2>2, FallsWith
    <3> QED BY <1>1, <3>1, <3>2, Vanished DEF Fell, Live
  <2> QED BY <2>2 DEF Exists
<1>2. ASSUME NEW r \in Rows, NEW l, NEW a, Made(r, l, a) PROVE Exists(Parent[s])'
  BY <1>2, Lines DEF Made, Rooted, Exists, Live, TypeOK
<1>3. CASE Keeping /\ Live(s)
  BY <1>3, Lines DEF Keeping, Rooted, Exists
<1>4. ASSUME NEW r \in Rows, NEW state, Toggled(r, state) PROVE Live(s)
  BY <1>4 DEF Toggled, Live, TypeOK
<1>5. CASE row' = row
  BY <1>5 DEF Rooted, Exists, Live
<1>6. CASE \/ UNCHANGED Table
           \/ \E r \in Rows, l \in Labels : Relabelled(r, l)
           \/ \E r \in Problems, a \in Anchors : Reanchored(r, a)
           \/ \E i \in Interventions, t \in Tariffs : Repriced(i, t)
           \/ \E i \in Interventions : Quoted(i)
  BY <1>5, <1>6 DEF Table, Relabelled, Reanchored, Repriced, Quoted
<1> QED BY <1>1, <1>2, <1>3, <1>4, <1>6, WrittenKeeps DEF Written

LEMMA WrittenBare ==
  ASSUME TypeOK, Bare, Written
  PROVE  Bare'
<1> SUFFICES ASSUME NEW s \in Rows, s \notin Problems \/ row'[s] = "unborn"
             PROVE  anchor'[s] = NoAnchor
  BY DEF Bare
<1>0. ASSUME Keeping, anchor'[s] = anchor[s] PROVE anchor'[s] = NoAnchor
  BY <1>0 DEF Keeping, Bare
<1>1. ASSUME NEW r \in Rows, Fell(r) PROVE anchor'[s] = NoAnchor
  <2>1. row'[s] = "unborn" => row[s] = "unborn"
    BY <1>1, Vanished DEF Fell
  <2>2. anchor[s] = NoAnchor
    BY <2>1 DEF Bare
  <2>3. Cleared(r, None) = None
    BY RowsAssumption DEF Cleared
  <2>4. anchor'[s] \in Anchors /\ anchor'[s].brand = None /\ anchor'[s].model = None
    BY <1>1, <2>2, <2>3, Vanished, NoAnchorTyped DEF Fell
  <2> QED BY <2>4 DEF Anchors, NoAnchor
<1>2. ASSUME NEW r \in Rows, NEW l, NEW a, Made(r, l, a) PROVE anchor'[s] = NoAnchor
  BY <1>2 DEF Made, Bare, TypeOK
<1>3. ASSUME NEW r \in Problems, NEW a, Reanchored(r, a) PROVE anchor'[s] = NoAnchor
  BY <1>3, Parents DEF Reanchored, Bare, Live, TypeOK
<1>4. CASE \/ UNCHANGED Table
           \/ \E r \in Rows, l \in Labels : Relabelled(r, l)
           \/ \E r \in Rows, state \in {"active", "inactive"} : Toggled(r, state)
           \/ \E i \in Interventions, t \in Tariffs : Repriced(i, t)
           \/ \E i \in Interventions : Quoted(i)
  <2>1. anchor' = anchor
    BY <1>4 DEF Table, Relabelled, Toggled, Repriced, Quoted
  <2> QED BY <1>0, <1>1, <2>1, WrittenKeeps
<1> QED BY <1>1, <1>2, <1>3, <1>4 DEF Written

\* A tariff is only written with prices that were judged and a journal that
\* tells them, or on a version that was not the one read.
LEMMA WrittenPrices ==
  ASSUME TypeOK, PricesOrdered, JournalTells, Written
  PROVE  PricesOrdered' /\ JournalTells'
<1> SUFFICES ASSUME NEW i \in Interventions, tariff'[i].at = "live", i \notin torn'
             PROVE  Valid(tariff'[i].sheet.prices) /\ tariff'[i].told = tariff'[i].sheet
  BY DEF PricesOrdered, JournalTells, Valid, Ordered
<1>0. torn \subseteq torn'
  BY WrittenTears DEF Tearing
<1>1. CASE tariff'[i] = tariff[i]
  BY <1>0, <1>1 DEF PricesOrdered, JournalTells
<1>2. ASSUME NEW r \in Rows, Fell(r) PROVE tariff'[i] = tariff[i]
  BY <1>2, Vanished DEF Fell
<1>3. ASSUME NEW k \in Interventions, NEW t \in Tariffs, Repriced(k, t), tariff'[i] # tariff[i]
      PROVE  Valid(tariff'[i].sheet.prices) /\ tariff'[i].told = tariff'[i].sheet
  <2>1. k = i /\ tariff'[i] = t
    BY <1>3 DEF Repriced, TypeOK
  <2> QED BY <1>3, <2>1 DEF Repriced
<1>4. CASE \/ UNCHANGED Table
           \/ \E r \in Rows, l \in Labels, a \in Anchors : Made(r, l, a)
           \/ \E r \in Rows, l \in Labels : Relabelled(r, l)
           \/ \E r \in Problems, a \in Anchors : Reanchored(r, a)
           \/ \E r \in Rows, state \in {"active", "inactive"} : Toggled(r, state)
           \/ \E k \in Interventions : Quoted(k)
  BY <1>1, <1>4 DEF Table, Made, Relabelled, Reanchored, Toggled, Quoted
<1> QED BY <1>1, <1>2, <1>3, <1>4 DEF Written

\* A reference that still names a row after the step.
Stays(s) == s # None => row'[s] \in {"active", "inactive"}

LEMMA WrittenAnchors ==
  ASSUME TypeOK, AnchorsCoherent, Written
  PROVE  AnchorsCoherent'
<1> SUFFICES ASSUME NEW s \in Rows, Live(s)', s \notin torn'
             PROVE  /\ Coherent(s, anchor'[s])
                    /\ Stays(anchor'[s].brand) /\ Stays(anchor'[s].model)
  BY DEF AnchorsCoherent, Coherent, Stays, Live, Anchored
<1>0. torn \subseteq torn'
  BY WrittenTears DEF Tearing
<1> DEFINE a == anchor[s]
<1>1. /\ a.brand \in Rows \cup {None} /\ a.model \in Rows \cup {None}
      /\ Live(s) => Coherent(s, a) /\ Exists(a.brand) /\ Exists(a.model)
  <2>1. a.brand \in Rows \cup {None} /\ a.model \in Rows \cup {None}
    BY AnchorFields, Parents DEF TypeOK
  <2>2. Live(s) => Anchored(s, a)
    BY <1>0 DEF AnchorsCoherent
  <2> QED BY <2>1, <2>2 DEF Anchored, Coherent, Exists
<1>2. ASSUME NEW r \in Rows, Fell(r)
      PROVE  /\ Coherent(s, anchor'[s])
             /\ Stays(anchor'[s].brand) /\ Stays(anchor'[s].model)
  <2>1. /\ Live(s) /\ anchor'[s].brand = Cleared(r, a.brand)
        /\ anchor'[s].model = Cleared(r, a.model)
    BY <1>2, Vanished DEF Fell, Live
  <2>2. a.model # None /\ a.model \notin Falling(r) => a.brand \notin Falling(r)
    BY <1>1, <2>1, FallsWith, RowsAssumption DEF Coherent, Exists, Falling
  <2>3. \A x \in Rows : Live(x) /\ x \notin Falling(r) => Live(x)'
    BY <1>2, Vanished DEF Fell, Live
  <2>4. Coherent(s, anchor'[s])
    BY <1>1, <2>1, <2>2 DEF Coherent, Cleared
  <2> QED BY <1>1, <2>1, <2>3, <2>4 DEF Exists, Cleared, Stays, Live
<1>3. ASSUME Keeping, Live(s), anchor'[s] = a
      PROVE  /\ Coherent(s, anchor'[s])
             /\ Stays(anchor'[s].brand) /\ Stays(anchor'[s].model)
  BY <1>1, <1>3 DEF Keeping, Exists, Stays, Live
<1>4. ASSUME NEW r \in Rows, NEW l, NEW b \in Anchors, Made(r, l, b), Keeping
      PROVE  /\ Coherent(s, anchor'[s])
             /\ Stays(anchor'[s].brand) /\ Stays(anchor'[s].model)
  <2>1. CASE s = r
    <3>1. anchor'[s] = b /\ Coherent(s, b) /\ Exists(b.brand) /\ Exists(b.model)
      BY <1>4, <2>1 DEF Made, TypeOK
    <3>2. b.brand \in Rows \cup {None} /\ b.model \in Rows \cup {None}
      BY AnchorFields, Parents
    <3> QED BY <1>4, <3>1, <3>2 DEF Keeping, Exists, Stays, Live
  <2>2. CASE s # r
    <3>1. Live(s) /\ anchor'[s] = a
      BY <1>4, <2>2 DEF Made, Live, TypeOK
    <3> QED BY <1>3, <1>4, <3>1
  <2> QED BY <2>1, <2>2
<1>5. ASSUME NEW r \in Problems, NEW b \in Anchors, Reanchored(r, b), Keeping
      PROVE  /\ Coherent(s, anchor'[s])
             /\ Stays(anchor'[s].brand) /\ Stays(anchor'[s].model)
  <2>1. CASE s = r
    <3>1. anchor'[s] = b /\ Coherent(s, b) /\ Exists(b.brand) /\ Exists(b.model)
      BY <1>5, <2>1 DEF Reanchored, TypeOK
    <3>2. b.brand \in Rows \cup {None} /\ b.model \in Rows \cup {None}
      BY AnchorFields, Parents
    <3> QED BY <1>5, <3>1, <3>2 DEF Keeping, Exists, Stays, Live
  <2>2. CASE s # r
    <3>1. Live(s) /\ anchor'[s] = a
      BY <1>5, <2>2 DEF Reanchored, Live, TypeOK
    <3> QED BY <1>3, <1>5, <3>1
  <2> QED BY <2>1, <2>2
<1>6. ASSUME NEW r \in Rows, NEW state, Toggled(r, state)
      PROVE  Live(s) /\ anchor'[s] = a
  BY <1>6 DEF Toggled, Live, TypeOK
<1>7. CASE \/ UNCHANGED Table
           \/ \E r \in Rows, l \in Labels : Relabelled(r, l)
           \/ \E k \in Interventions, t \in Tariffs : Repriced(k, t)
           \/ \E k \in Interventions : Quoted(k)
  <2>1. Live(s) /\ anchor'[s] = a
    BY <1>7 DEF Table, Relabelled, Repriced, Quoted, Live
  <2> QED BY <1>2, <1>3, <2>1, WrittenKeeps
<1> QED BY <1>2, <1>3, <1>4, <1>5, <1>6, <1>7, WrittenKeeps DEF Written

\* What DemandesCoherent says of one request, with the rows apart.
Named(x) == /\ Exists(x.domain) /\ Exists(x.brand) /\ Exists(x.model)
            /\ Exists(x.problem) /\ Exists(x.city) /\ Exists(x.zone)

LEMMA DemandesAre ==
  ASSUME TypeOK
  PROVE  DemandesCoherent => \A q \in Requests : req[q].at = "made" =>
                                 Named(demande[q]) /\ Device(demande[q], req[q].body)
<1>1. ASSUME NEW x \in Refs, \A f \in DOMAIN x \ {"family"} : Exists(x[f])
      PROVE  Named(x)
  BY <1>1, RefFields DEF Named
<1>2. \A q \in Requests : demande[q] \in Refs
  BY DEF TypeOK
<1> QED BY <1>1, <1>2 DEF DemandesCoherent, Device

LEMMA DemandesBecome ==
  ASSUME TypeOK',
         \A q \in Requests : req'[q].at = "made" =>
            Named(demande[q])' /\ Device(demande[q], req[q].body)'
  PROVE  DemandesCoherent'
<1>1. \A q \in Requests : demande'[q] \in Refs
  BY DEF TypeOK
<1>2. ASSUME NEW q \in Requests, Named(demande[q])'
      PROVE  (\A f \in DOMAIN demande[q] \ {"family"} : Exists(demande[q][f]))'
  BY <1>1, <1>2, RefFields DEF Named
<1> QED BY <1>2 DEF DemandesCoherent, Device

LEMMA WrittenDemandes ==
  ASSUME TypeOK, TypeOK', DemandesCoherent, NoOrphan, Settled, Written
  PROVE  DemandesCoherent' /\ NoOrphan'
<1>0. torn \subseteq torn'
  BY WrittenTears DEF Tearing
<1>1. \A q \in Requests : demande[q] \in Refs
  BY DEF TypeOK
<1>2. \A q \in Requests : req'[q].at = "made" => req'[q] = req[q]
  BY DEF Settled
<1>3. ASSUME NEW r \in Rows, Fell(r), NEW q \in Requests, req'[q].at = "made"
      PROVE  Named(demande[q])' /\ Device(demande[q], req[q].body)'
  <2> DEFINE x == demande[q]
             body == req[q].body
  <2>1. /\ Named(x) /\ Device(x, body)
        /\ x \in Refs
    BY <1>1, <1>2, <1>3, DemandesAre
  <2>2. /\ x.domain \in Rows \cup {None} /\ x.brand \in Rows \cup {None}
        /\ x.model \in Rows \cup {None} /\ x.problem \in Rows \cup {None}
        /\ x.city \in Rows \cup {None} /\ x.zone \in Rows \cup {None}
    BY <2>1, RefFields, Parents
  <2>3. \A s \in Rows \cup {None} : Exists(s) => Stays(Cleared(r, s))
    BY <1>3, Vanished DEF Fell, Live, Exists, Cleared, Stays
  <2>4. /\ demande'[q].domain = Cleared(r, x.domain) /\ demande'[q].brand = Cleared(r, x.brand)
        /\ demande'[q].model = Cleared(r, x.model) /\ demande'[q].problem = Cleared(r, x.problem)
        /\ demande'[q].city = Cleared(r, x.city) /\ demande'[q].zone = Cleared(r, x.zone)
        /\ req'[q].body = body
    BY <1>2, <1>3, Vanished DEF Fell
  <2>5. Named(demande[q])'
    BY <2>1, <2>2, <2>3, <2>4 DEF Named, Exists, Live, Stays
  <2>6. \A s \in Rows \cup {None} : s # None /\ s \notin Falling(r) /\ Exists(s) /\ Parent[s] # None
                            => Parent[s] \notin Falling(r)
    BY FallsWith DEF Exists
  <2>7. /\ x.model # None => Parent[x.model] # None
        /\ x.brand # None => Parent[x.brand] # None
        /\ x.problem # None => Parent[x.problem] # None
        /\ x.zone # None => Parent[x.zone] # None
    BY <2>1, RefFields, Parents, RowsAssumption
  <2>8. Device(demande[q], req[q].body)'
    <3> HIDE DEF x, body
    <3> DEFINE y == demande'[q]
    <3>0. \A s : Cleared(r, s) = s \/ Cleared(r, s) = None
      BY DEF Cleared
    <3>0a. \A s : Cleared(r, s) # None => Cleared(r, s) = s /\ s \notin Falling(r)
      BY DEF Cleared
    <3>1. y.zone # None => y.city = Parent[y.zone]
      BY <2>1, <2>2, <2>4, <2>6, <2>7, <3>0a DEF Device, Named, Cleared
    <3>2. (y.model # None /\ body.problem \notin torn') => y.brand = Parent[y.model]
      BY <1>0, <2>1, <2>2, <2>4, <2>6, <2>7, <3>0a DEF Device, Named, Cleared
    <3>3. y.problem # None => y.domain = Parent[y.problem]
      BY <2>1, <2>2, <2>4, <2>6, <2>7, <3>0a DEF Device, Named, Cleared
    <3>4. (y.brand # None /\ body.brand # None) => y.domain = Parent[y.brand]
      BY <2>1, <2>2, <2>4, <2>6, <2>7, <3>0a DEF Device, Named, Cleared
    <3> QED BY <2>4, <3>1, <3>2, <3>3, <3>4 DEF Device
  <2> QED BY <2>5, <2>8
<1>4. ASSUME NEW r \in Rows, Fell(r) PROVE NoOrphan'
  <2> SUFFICES ASSUME NEW q \in Requests, demande[q].family # None
               PROVE  Live(demande[q].family)' \/ demande[q].family \in torn'
    BY <1>4, Vanished DEF NoOrphan, Fell
  <2> DEFINE f == demande[q].family
  <2>1. f \in Families /\ f \in Rows /\ Parent[f] = None /\ Kind[f] = "family"
    BY <1>1, RefFields, Parents DEF Families, Of
  <2>2. Live(f) \/ f \in torn
    BY DEF NoOrphan
  <2>3. CASE f \in Falling(r)
    <3>1. f = r
      BY <2>1, <2>3, Lines DEF Falling
    <3>2. Blocked(r)
      BY <1>1, <3>1, RefFields DEF Blocked, Requested
    <3> QED BY <1>4, <2>1, <3>1, <3>2 DEF Fell
  <2>4. CASE f \notin Falling(r)
    BY <1>0, <1>4, <2>1, <2>2, <2>4, Vanished DEF Fell, Live
  <2> QED BY <2>3, <2>4
<1>5. CASE Keeping
  <2>1. \A s \in Rows \cup {None} : Exists(s) => Exists(s)'
    BY <1>5 DEF Keeping, Exists
  <2>2. ASSUME NEW q \in Requests, req'[q].at = "made"
        PROVE  Named(demande[q])' /\ Device(demande[q], req[q].body)'
    <3> DEFINE x == demande[q]
    <3>1. /\ Named(x) /\ Device(x, req[q].body) /\ demande'[q] = x /\ req'[q] = req[q]
          /\ x \in Refs
      BY <1>1, <1>2, <1>5, <2>2, DemandesAre DEF Keeping
    <3>2. /\ x.domain \in Rows \cup {None} /\ x.brand \in Rows \cup {None}
          /\ x.model \in Rows \cup {None} /\ x.problem \in Rows \cup {None}
          /\ x.city \in Rows \cup {None} /\ x.zone \in Rows \cup {None}
      BY <3>1, RefFields, Parents
    <3>3. Named(demande[q])'
      BY <2>1, <3>1, <3>2 DEF Named
    <3>4. Device(demande[q], req[q].body)'
      BY <1>0, <3>1 DEF Device
    <3> QED BY <3>3, <3>4
  <2>3. NoOrphan'
    <3>1. \A q \in Requests : demande[q].family \in Rows \cup {None}
      BY <1>1, RefFields, Parents
    <3> QED BY <1>0, <1>5, <3>1 DEF NoOrphan, Keeping
  <2>4. DemandesCoherent'
    BY <2>2, DemandesBecome
  <2> QED BY <2>3, <2>4
<1>6. ASSUME NEW r \in Rows, Fell(r) PROVE DemandesCoherent'
  BY <1>3, <1>6, DemandesBecome
<1> QED BY <1>4, <1>5, <1>6, WrittenKeeps

\* A name is only written where it is free, but by the calls that tear.
LEMMA WrittenLabels ==
  ASSUME TypeOK, Bare, LabelsUnique, Written
  PROVE  LabelsUnique'
<1> DEFINE Two(r, s) == /\ r \notin Problems /\ s \notin Problems /\ r # s
                        /\ Kind[r] = Kind[s] /\ Parent[r] = Parent[s]
<1> SUFFICES ASSUME NEW r \in Rows, NEW s \in Rows, Two(r, s), Live(r)', Live(s)',
                    r \notin torn', s \notin torn'
             PROVE  label'[r] # label'[s]
  BY DEF LabelsUnique
<1>0. torn \subseteq torn'
  BY WrittenTears DEF Tearing
<1>1. Live(r) /\ Live(s) => label[r] # label[s]
  BY <1>0 DEF LabelsUnique
<1>2. anchor[r] = NoAnchor /\ anchor[s] = NoAnchor
  BY DEF Bare
<1>3. ASSUME NEW x \in Rows, Fell(x) PROVE Live(r) /\ Live(s) /\ label' = label
  BY <1>3, Vanished DEF Fell, Live
<1>4. ASSUME NEW x \in Rows, NEW l, NEW a, Made(x, l, a) PROVE label'[r] # label'[s]
  BY <1>1, <1>2, <1>4 DEF Made, Taken, Live, TypeOK
<1>5. ASSUME NEW x \in Rows, NEW l, Relabelled(x, l) PROVE label'[r] # label'[s]
  BY <1>1, <1>2, <1>5 DEF Relabelled, Taken, Live, TypeOK
<1>6. ASSUME NEW x \in Rows, NEW state, Toggled(x, state)
      PROVE  Live(r) /\ Live(s) /\ label' = label
  BY <1>6 DEF Toggled, Live, TypeOK
<1>7. CASE \/ UNCHANGED Table
           \/ \E x \in Problems, a \in Anchors : Reanchored(x, a)
           \/ \E k \in Interventions, t \in Tariffs : Repriced(k, t)
           \/ \E k \in Interventions : Quoted(k)
  BY <1>1, <1>7 DEF Table, Reanchored, Repriced, Quoted, Live
<1> QED BY <1>1, <1>3, <1>4, <1>5, <1>6, <1>7 DEF Written

LEMMA WrittenInv ==
  ASSUME Inv, Settled, Written
  PROVE  Inv'
<1>1. TypeOK'
  BY WrittenTyped DEF Inv
<1>2. Calls' /\ Rooted' /\ Bare'
  BY WrittenCalls, WrittenRooted, WrittenBare DEF Inv
<1>3. PricesOrdered' /\ JournalTells'
  BY WrittenPrices DEF Inv
<1>4. AnchorsCoherent' /\ DemandesCoherent' /\ NoOrphan' /\ LabelsUnique'
  BY <1>1, WrittenAnchors, WrittenDemandes, WrittenLabels DEF Inv, CatalogueCoherent
<1> QED BY <1>1, <1>2, <1>3, <1>4 DEF Inv, CatalogueCoherent

\* What is said of the tables is not disturbed while they are not written.
LEMMA SameTable ==
  ASSUME Inv, UNCHANGED Table
  PROVE  /\ Rooted' /\ Bare' /\ PricesOrdered' /\ JournalTells'
         /\ AnchorsCoherent' /\ NoOrphan' /\ LabelsUnique'
<1>1. UNCHANGED <<row, label, anchor, tariff, demande, quoted, torn>>
  BY DEF Table
<1>2. Rooted' /\ Bare'
  BY <1>1 DEF Inv, Rooted, Exists, Live, Bare
<1>3. PricesOrdered' /\ JournalTells'
  BY <1>1 DEF Inv, PricesOrdered, JournalTells
<1>4. AnchorsCoherent' /\ NoOrphan'
  BY <1>1 DEF Inv, CatalogueCoherent, AnchorsCoherent, NoOrphan, Anchored, Live
<1>5. LabelsUnique'
  BY <1>1 DEF Inv, CatalogueCoherent, LabelsUnique, Live
<1> QED BY <1>2, <1>3, <1>4, <1>5

LEMMA ReadingInv ==
  ASSUME Inv, NEW q \in Requests, Reading(q)
  PROVE  Inv'
<1>0. UNCHANGED <<row, label, anchor, tariff, demande, quoted, torn>> /\ UNCHANGED Table
  BY DEF Reading, Table
<1> PICK x \in Requesting : req[q].at = "new" /\ req' = [req EXCEPT ![q] = x] /\ Sound(x)
                            /\ x.at # "made"
  BY DEF Reading, Awaits
<1>1. req' \in [Requests -> Requesting] /\ \A p \in Requests : req'[p] = IF p = q THEN x ELSE req[p]
  BY DEF Inv, TypeOK
<1>2. TypeOK'
  BY <1>0, <1>1 DEF Inv, TypeOK
<1>3. Calls'
  <2> SUFFICES ASSUME NEW p \in Requests
               PROVE  Sound(req[p])' /\ (req'[p].at # "made" => demande'[p] = NoRefs)
    BY DEF Calls
  <2>1. Sound(req'[p])
    BY <1>1 DEF Inv, Calls
  <2>2. Sound(req[p])'
    BY <1>0, <2>1 DEF Sound, Device
  <2> QED BY <1>0, <1>1, <2>2 DEF Inv, Calls
<1>4. DemandesCoherent'
  <2>1. \A p \in Requests : req'[p].at = "made" => req'[p] = req[p]
    BY <1>1
  <2> QED BY <1>0, <2>1 DEF Inv, CatalogueCoherent, DemandesCoherent, Exists, Live
<1> QED BY <1>0, <1>2, <1>3, <1>4, SameTable DEF Inv, CatalogueCoherent

LEMMA DemandedInv ==
  ASSUME Inv, NEW q \in Requests, Demanded(q)
  PROVE  Inv'
<1> DEFINE x == req[q].refs
           body == req[q].body
<1>0. TypeOK /\ Calls /\ CatalogueCoherent
  BY DEF Inv
<1>1. /\ UNCHANGED <<row, label, anchor, tariff, quoted>>
      /\ torn \subseteq torn' /\ torn' \subseteq Rows
      /\ x \in Refs /\ body \in Refs /\ Device(x, body)
  BY <1>0, Held DEF Demanded, Tearing, Calls, Sound
<1>2. \A p \in Requests : /\ req'[p] = IF p = q THEN [at |-> "made", body |-> body] ELSE req[p]
                          /\ demande'[p] = IF p = q THEN x ELSE demande[p]
  BY <1>0 DEF Demanded, TypeOK
<1>3. TypeOK'
  <2>1. req' \in [Requests -> Requesting] /\ demande' \in [Requests -> Refs]
    BY <1>0, <1>1, Asked DEF Demanded, TypeOK
  <2> QED BY <1>0, <1>1, <2>1 DEF TypeOK
<1>4. Calls'
  <2> SUFFICES ASSUME NEW p \in Requests
               PROVE  Sound(req[p])' /\ (req'[p].at # "made" => demande'[p] = NoRefs)
    BY DEF Calls
  <2>1. CASE p = q
    <3>1. req'[p] = [at |-> "made", body |-> body]
      BY <1>2, <2>1
    <3> QED BY <3>1 DEF Sound
  <2>2. CASE p # q
    <3>1. req'[p] = req[p] /\ demande'[p] = demande[p]
      BY <1>2, <2>2
    <3> QED BY <1>0, <1>1, <3>1 DEF Calls, Sound, Device
  <2> QED BY <2>1, <2>2
<1>5. Rooted' /\ Bare'
  BY <1>1 DEF Inv, Rooted, Bare, Exists, Live
<1>6. PricesOrdered' /\ JournalTells'
  BY <1>1 DEF Inv, PricesOrdered, JournalTells
<1>7. AnchorsCoherent' /\ LabelsUnique'
  <2>1. AnchorsCoherent'
    BY <1>0, <1>1 DEF CatalogueCoherent, AnchorsCoherent, Anchored, Live
  <2>2. LabelsUnique'
    BY <1>0, <1>1 DEF CatalogueCoherent, LabelsUnique, Live
  <2> QED BY <2>1, <2>2
<1>8. DemandesCoherent'
  <2> SUFFICES ASSUME NEW p \in Requests, req'[p].at = "made"
               PROVE  Named(demande[p])' /\ Device(demande[p], req[p].body)'
    BY <1>3, DemandesBecome
  <2>1. CASE p = q
    <3>1. demande'[p] = x /\ req'[p].body = body
      BY <1>2, <2>1
    <3>2. Named(x)
      BY <1>1, RefFields DEF Demanded, Named
    <3>3. Named(demande[p])'
      BY <1>1, <3>1, <3>2 DEF Named, Exists, Live
    <3> QED BY <1>1, <3>1, <3>3 DEF Device
  <2>2. CASE p # q
    <3>1. req'[p] = req[p] /\ demande'[p] = demande[p]
      BY <1>2, <2>2
    <3>2. Named(demande[p]) /\ Device(demande[p], req[p].body)
      BY <1>0, <3>1, DemandesAre DEF CatalogueCoherent
    <3>3. Named(demande[p])'
      BY <1>1, <3>1, <3>2 DEF Named, Exists, Live
    <3> QED BY <1>1, <3>1, <3>2, <3>3 DEF Device
  <2> QED BY <2>1, <2>2
<1>9. NoOrphan'
  <2> SUFFICES ASSUME NEW p \in Requests, demande'[p].family # None
               PROVE  Live(demande'[p].family) \/ demande'[p].family \in torn'
    BY <1>1 DEF NoOrphan, Live
  <2>1. CASE p = q
    BY <1>2, <2>1 DEF Demanded, Exists
  <2>2. CASE p # q
    BY <1>0, <1>1, <1>2, <2>2 DEF CatalogueCoherent, NoOrphan
  <2> QED BY <2>1, <2>2
<1> QED BY <1>3, <1>4, <1>5, <1>6, <1>7, <1>8, <1>9 DEF Inv, CatalogueCoherent

LEMMA InitInv ==
  ASSUME Init
  PROVE  Inv
<1> PICK o \in Openings : /\ row = [r \in Rows |-> CASE r \in o.rows -> "active"
                                                [] r \in o.gone -> "gone"
                                                [] OTHER -> "unborn"]
                          /\ label = o.label /\ anchor = o.anchor /\ tariff = o.tariff
  BY DEF Init
<1>1. /\ demande = [q \in Requests |-> NoRefs] /\ quoted = {}
      /\ req = [q \in Requests |-> [at |-> "new"]] /\ torn = {}
  BY DEF Init
<1>2. \A r \in Rows : /\ row[r] \in {"active", "gone", "unborn"}
                      /\ Live(r) <=> r \in o.rows
                      /\ row[r] = "unborn" => r \notin o.rows
  <2>1. o.gone \subseteq Rows \ o.rows
    BY OpeningsAssumption
  <2>2. \A r \in Rows : /\ r \in o.rows => row[r] = "active"
                        /\ r \in o.gone => row[r] = "gone"
                        /\ r \notin o.rows \cup o.gone => row[r] = "unborn"
    BY <2>1
  <2> QED BY <2>1, <2>2 DEF Live
<1>3. TypeOK
  <2>1. row \in [Rows -> {"unborn", "active", "inactive", "gone"}]
    BY <1>2
  <2>2. [at |-> "new"] \in Requesting
    BY DEF Requesting
  <2>3. NoRefs \in Refs
    BY DEF NoRefs, Refs
  <2> QED BY <1>1, <2>1, <2>2, <2>3, OpeningsAssumption DEF TypeOK
<1>4. Calls
  BY <1>1 DEF Calls, Sound
<1>5. Rooted
  <2> SUFFICES ASSUME NEW r \in Rows, Live(r), Parent[r] # None PROVE Live(Parent[r])
    BY DEF Rooted, Exists
  <2>1. r \in o.rows /\ Parent[r] \in Line[r] /\ Parent[r] \in Rows
    BY <1>2, Lines
  <2>2. Parent[r] \in o.rows
    BY <2>1, OpeningsAssumption
  <2> QED BY <1>2, <2>1, <2>2
<1>6. Bare
  <2> SUFFICES ASSUME NEW r \in Rows, r \notin Problems \/ row[r] = "unborn"
               PROVE  anchor[r] = NoAnchor
    BY DEF Bare
  <2>1. anchor[r] # NoAnchor => Kind[r] = "problem" /\ r \in o.rows
    BY OpeningsAssumption
  <2> QED BY <1>2, <2>1 DEF Problems, Of
<1>7. PricesOrdered /\ JournalTells
  BY OpeningsAssumption DEF PricesOrdered, JournalTells
<1>8. AnchorsCoherent
  <2> SUFFICES ASSUME NEW r \in Rows PROVE Anchored(r, anchor[r])
    BY DEF AnchorsCoherent
  <2> DEFINE a == anchor[r]
  <2>1. /\ a.brand # None => a.brand \in o.rows /\ Parent[a.brand] = Parent[r]
        /\ a.model # None => a.model \in o.rows /\ Parent[a.model] = a.brand
    BY OpeningsAssumption
  <2>2. o.rows \subseteq Rows
    BY OpeningsAssumption
  <2>3. a.model \in Models \cup {None}
    BY <1>3, AnchorFields DEF TypeOK
  <2>4. a.model # None => a.brand # None
    BY <2>1, <2>3, Parents, RowsAssumption
  <2> QED BY <1>2, <2>1, <2>2, <2>4 DEF Anchored
<1>9. DemandesCoherent /\ NoOrphan
  BY <1>1 DEF DemandesCoherent, NoOrphan, NoRefs
<1>10. LabelsUnique
  BY <1>2, OpeningsAssumption DEF LabelsUnique
<1> QED BY <1>3, <1>4, <1>5, <1>6, <1>7, <1>8, <1>9, <1>10 DEF Inv, CatalogueCoherent

LEMMA StepInv ==
  ASSUME Inv, [Next]_vars
  PROVE  Inv'
BY Steps, WrittenInv, ReadingInv, DemandedInv

LEMMA Invariant == Spec => []Inv
<1>1. Init => Inv
  BY InitInv
<1>2. Inv /\ [Next]_vars => Inv'
  BY StepInv
<1> QED BY <1>1, <1>2, PTL DEF Spec

\* The tables have the domains of their columns, and what a call carries too.
THEOREM CatalogueTyped == Spec => []TypeOK
<1>1. Inv => TypeOK
  BY DEF Inv
<1> QED BY <1>1, Invariant, PTL

\* The forest of the catalogue and the requests that refer to it fit together,
\* whatever is renamed, anchored and deleted between a check and its write.
THEOREM CatalogueFits == Spec => []CatalogueCoherent
<1>1. Inv => CatalogueCoherent
  BY DEF Inv
<1> QED BY <1>1, Invariant, PTL

-----------------------------------------------------------------------------
(* Nothing that was kept on purpose is lost.                               *)

\* Who falls with another row leaves a row right under that one.
LEMMA LiveChild ==
  ASSUME Rooted, NEW s \in Rows, Live(s), NEW r \in Line[s]
  PROVE  \E c \in Rows : Live(c) /\ Parent[c] = r
<1> DEFINE Good(x) == Live(x) => \A y \in Line[x] : \E c \in Rows : Live(c) /\ Parent[c] = y
<1>1. ASSUME NEW x \in Rows, Parent[x] # None => Good(Parent[x]) PROVE Good(x)
  <2> SUFFICES ASSUME Live(x), NEW y \in Line[x]
               PROVE  \E c \in Rows : Live(c) /\ Parent[c] = y
    OBVIOUS
  <2>1. Parent[x] # None /\ (y = Parent[x] \/ y \in Line[Parent[x]])
    BY Lines
  <2>2. Live(Parent[x])
    BY <2>1 DEF Rooted, Exists
  <2> QED BY <1>1, <2>1, <2>2
<1> HIDE DEF Good
<1>2. \A x \in Domains \cup Families \cup Cities : Good(x)
  BY <1>1, Parents
<1>3. \A x \in Brands \cup Problems \cup Zones : Good(x)
  BY <1>1, <1>2, Parents
<1>4. \A x \in Models \cup Diagnostics : Good(x)
  BY <1>1, <1>3, Parents
<1>5. \A x \in Interventions : Good(x)
  BY <1>1, <1>4, Parents
<1>6. s \in Domains \cup Families \cup Cities \cup Brands \cup Problems \cup Zones \cup Models
           \cup Diagnostics \cup Interventions
  BY RowsAssumption DEF Kinds, Of, Domains, Families, Cities, Brands, Problems, Zones, Models,
                        Diagnostics, Interventions
<1> QED BY <1>2, <1>3, <1>4, <1>5, <1>6 DEF Good

\* A row that falls was blocked from falling, or falls with its domain.
LEMMA FallExcused ==
  ASSUME Inv, NEW r \in Rows, Fell(r), NEW s \in Falling(r), s = r => Blocked(r)
  PROVE  Excused(s)
<1>1. s \in Rows /\ Live(s) /\ (s = r \/ r \in Line[s])
  BY DEF Falling
<1>2. s # r => Blocked(r)
  <2> SUFFICES ASSUME s # r PROVE Blocked(r)
    OBVIOUS
  <2>1. \E c \in Rows : Live(c) /\ Parent[c] = r
    BY <1>1, LiveChild DEF Inv
  <2> QED BY <2>1 DEF Blocked
<1>3. CASE Kind[r] = "domain"
  <2>1. row'[r] = "gone"
    <3>1. r \in Falling(r)
      BY DEF Fell, Falling
    <3>2. TypeOK /\ Vanish(r)
      BY DEF Inv, Fell
    <3> QED BY <3>1, <3>2, Vanished
  <2> QED BY <1>1, <1>3, <2>1 DEF Excused
<1>4. CASE r \in torn'
  BY <1>1, <1>4 DEF Excused
<1> QED BY <1>2, <1>3, <1>4 DEF Fell

\* One step of NothingLost.
Kept ==
  /\ \A i \in Interventions :
       tariff[i].at = "live" /\ tariff[i].entries > 0 /\ tariff'[i].at = "none" => Excused(i)
  /\ \A q \in Requests : \A f \in DOMAIN demande[q] :
       demande[q][f] # None /\ demande'[q][f] = None => Excused(demande[q][f])
  /\ \A i \in quoted \ quoted' : Excused(i)

LEMMA FellKeeps ==
  ASSUME Inv, NEW r \in Rows, Fell(r)
  PROVE  Kept
<1>0. TypeOK /\ Vanish(r)
  BY DEF Inv, Fell
<1>1. ASSUME NEW i \in Interventions, tariff[i].at = "live", tariff'[i].at = "none"
      PROVE  Excused(i)
  <2>1. i \in Falling(r)
    BY <1>0, <1>1, Vanished
  <2>2. i = r => Blocked(r)
    BY <1>1 DEF Blocked
  <2> QED BY <2>1, <2>2, FallExcused
<1>2. ASSUME NEW q \in Requests, NEW f \in DOMAIN demande[q],
             demande[q][f] # None, demande'[q][f] = None
      PROVE  Excused(demande[q][f])
  <2> DEFINE x == demande[q]
  <2>1. x \in Refs
    BY <1>0 DEF TypeOK
  <2>2. f \in {"domain", "brand", "model", "problem", "family", "city", "zone"}
    BY <2>1, RefFields
  <2>3. demande'[q][f] = x[f] \/ demande'[q][f] = Cleared(r, x[f])
    BY <1>0, <2>2, Vanished
  <2>4. x[f] \in Falling(r)
    BY <1>2, <2>3 DEF Cleared
  <2>5. x[f] = r => Blocked(r)
    BY DEF Blocked, Requested
  <2> QED BY <2>4, <2>5, FallExcused
<1>3. ASSUME NEW i \in quoted \ quoted' PROVE Excused(i)
  <2>1. i \in Falling(r)
    BY <1>0, <1>3, Vanished
  <2>2. i = r => Blocked(r)
    BY <1>3 DEF Blocked
  <2> QED BY <2>1, <2>2, FallExcused
<1> QED BY <1>1, <1>2, <1>3 DEF Kept

LEMMA WrittenKept ==
  ASSUME Inv, Written
  PROVE  Kept
<1>1. CASE \E r \in Rows : Fell(r)
  BY <1>1, FellKeeps
<1>2. CASE ~\E r \in Rows : Fell(r)
  <2>1. demande' = demande
    BY <1>2, WrittenKeeps DEF Inv, Keeping
  <2>2. quoted \subseteq quoted'
    BY <1>2 DEF Written, Table, Made, Relabelled, Reanchored, Toggled, Repriced, Quoted
  <2>3. ASSUME NEW i \in Interventions, tariff[i].at = "live", tariff[i].entries > 0,
               tariff'[i].at = "none"
        PROVE  Excused(i)
    <3>1. PICK k \in Interventions, t \in Tariffs : Repriced(k, t)
      BY <1>2, <2>3 DEF Written, Table, Made, Relabelled, Reanchored, Toggled, Quoted
    <3>2. k = i /\ t.at = "none"
      BY <2>3, <3>1 DEF Repriced, Inv, TypeOK
    <3>3. i \in torn'
      BY <2>3, <3>1, <3>2 DEF Repriced
    <3> QED BY <3>3 DEF Excused
  <2> QED BY <2>1, <2>2, <2>3 DEF Kept
<1> QED BY <1>1, <1>2

LEMMA StepKept ==
  ASSUME Inv, [Next]_vars
  PROVE  Kept
<1>1. ASSUME UNCHANGED <<tariff, demande, quoted>> PROVE Kept
  BY <1>1 DEF Kept
<1>2. ASSUME NEW q \in Requests, Reading(q) PROVE Kept
  BY <1>1, <1>2 DEF Reading, Table
<1>3. ASSUME NEW q \in Requests, Demanded(q) PROVE Kept
  <2>1. UNCHANGED <<tariff, quoted>> /\ demande' = [demande EXCEPT ![q] = req[q].refs]
        /\ demande[q] = NoRefs
    BY <1>3 DEF Demanded, Inv, Calls
  <2>2. \A f \in DOMAIN NoRefs : NoRefs[f] = None
    BY DEF NoRefs
  <2>3. \A p \in Requests : p # q => demande'[p] = demande[p]
    BY <2>1 DEF Inv, TypeOK
  <2>4. ASSUME NEW p \in Requests, NEW f \in DOMAIN demande[p],
               demande[p][f] # None, demande'[p][f] = None
        PROVE  FALSE
    BY <2>1, <2>2, <2>3, <2>4
  <2> QED BY <2>1, <2>4 DEF Kept
<1> QED BY <1>2, <1>3, Steps, WrittenKept

\* A journal, and what a request or a quote refers to, is lost only with the
\* whole domain or by a deletion that had counted before.
THEOREM KeepsOnPurpose == Spec => NothingLost
<1>1. Inv /\ [Next]_vars => [Kept]_vars
  BY StepKept
<1> QED BY <1>1, Invariant, PTL DEF Spec, NothingLost, Kept

-----------------------------------------------------------------------------
(* What the scales tell.                                                   *)

LEMMA MinIs ==
  ASSUME NEW S \in SUBSET Nat, S # {}
  PROVE  Min(S) \in S /\ \A y \in S : Min(S) <= y
BY LeastNumber DEF Min

\* The prices b of the tariffs of S.
Given(S, b) == IF b \in Bounds THEN {tariff[i].sheet.prices[b] : i \in S} \ {None} ELSE {}

LEMMA GivenIs ==
  ASSUME TypeOK, NEW S \in SUBSET Interventions, NEW b \in Bounds
  PROVE  /\ IsFiniteSet(Given(S, b)) /\ Given(S, b) \subseteq Nat
         /\ \A i \in S : tariff[i].sheet.prices[b] # None =>
                            tariff[i].sheet.prices[b] \in Given(S, b)
<1> DEFINE f == [i \in S |-> tariff[i].sheet.prices[b]]
           T == {tariff[i].sheet.prices[b] : i \in S}
<1>1. IsFiniteSet(S)
  BY Parents, FS_Subset, RowsAssumption
<1>2. f \in Surjection(S, T)
  BY DEF Surjection
<1>3. IsFiniteSet(T)
  BY <1>1, <1>2, FS_Surjection
<1>4. \A i \in S : tariff[i].sheet.prices[b] \in Amounts \cup {None}
  BY DEF TypeOK, Tariffs, Sheets, Prices
<1>5. Given(S, b) = T \ {None}
  BY DEF Given
<1>6. IsFiniteSet(T \ {None})
  BY <1>3, FS_Subset
<1> QED BY <1>4, <1>5, <1>6, PricesAssumption

LEMMA ScaleFields ==
  ASSUME NEW S
  PROVE  /\ ScaleOf(S).min = IF Given(S, "min") = {} THEN None ELSE Min(Given(S, "min"))
         /\ ScaleOf(S).reference = IF Cardinality(Given(S, "reference")) = 1
                                   THEN Min(Given(S, "reference")) ELSE None
BY DEF ScaleOf, Given

\* A scale tells each of the tariffs it is computed from.
LEMMA ScaleTells ==
  ASSUME TypeOK, PricesOrdered, NEW S \in SUBSET Interventions, NEW i \in S, Choosable(i),
         "reference" \in Bounds
  PROVE  LET p == tariff[i].sheet.prices IN
         /\ ScaleOf(S).reference \in {None, p["reference"]}
         /\ ("min" \in Bounds /\ p["min"] # None /\ i \notin torn) =>
              ScaleOf(S).min <= p["reference"]
<1> DEFINE p == tariff[i].sheet.prices
           R == Given(S, "reference")
           M == Given(S, "min")
<1>1. /\ p["reference"] # None /\ p["reference"] \in R
      /\ IsFiniteSet(R) /\ R \subseteq Nat
  BY GivenIs DEF Choosable
<1>2. ASSUME Cardinality(R) = 1 PROVE Min(R) = p["reference"]
  <2>1. PICK x : R = {x}
    BY <1>1, <1>2, FS_Singleton
  <2>2. Min(R) \in R
    BY <1>1, MinIs
  <2> QED BY <1>1, <2>1, <2>2
<1>3. ScaleOf(S).reference \in {None, p["reference"]}
  BY <1>2, ScaleFields
<1>4. ASSUME "min" \in Bounds, p["min"] # None, i \notin torn
      PROVE  ScaleOf(S).min <= p["reference"]
  <2>1. p["min"] \in M /\ M \subseteq Nat
    BY <1>4, GivenIs
  <2>2. ScaleOf(S).min = Min(M) /\ Min(M) \in Nat /\ Min(M) <= p["min"]
    BY <2>1, MinIs, ScaleFields
  <2>3. Ordered(p)
    BY <1>4 DEF PricesOrdered, Choosable, Valid
  <2>4. <<"min", "reference">> \in Pairs
    BY DEF Pairs
  <2>5. p["min"] <= p["reference"]
    BY <1>1, <1>4, <2>3, <2>4 DEF Ordered
  <2> QED BY <1>1, <2>1, <2>2, <2>5
<1> QED BY <1>3, <1>4

LEMMA ScalesTell ==
  ASSUME TypeOK, PricesOrdered
  PROVE  ScaleTellsQuotes
<1> SUFFICES ASSUME NEW i \in Interventions, Choosable(i)
             PROVE  /\ HasActiveScale(Parent[i])
                    /\ \A s \in {DiagnosticScale(Parent[i]), ProblemScale(Parent[Parent[i]])} :
                         "reference" \in Bounds =>
                           LET p == tariff[i].sheet.prices IN
                           /\ s.reference \in {None, p["reference"]}
                           /\ ("min" \in Bounds /\ p["min"] # None /\ i \notin torn) =>
                                s.min <= p["reference"]
  BY DEF ScaleTellsQuotes
<1> DEFINE D == Priced({k \in Interventions : Parent[k] = Parent[i]})
           P == Priced({k \in Interventions : /\ Parent[Parent[k]] = Parent[Parent[i]]
                                              /\ row[Parent[k]] = "active"})
<1>1. i \in D /\ i \in P /\ D \subseteq Interventions /\ P \subseteq Interventions
  BY DEF Priced, Choosable
<1>2. HasActiveScale(Parent[i])
  BY <1>1 DEF HasActiveScale, Choosable
<1>3. DiagnosticScale(Parent[i]) = ScaleOf(D) /\ ProblemScale(Parent[Parent[i]]) = ScaleOf(P)
  BY DEF DiagnosticScale, ProblemScale
<1> HIDE DEF D, P
<1> QED BY <1>1, <1>2, <1>3, ScaleTells

\* The prices are in order, the journal tells them, and the scales that are
\* computed from them tell what a technician can charge.
THEOREM CatalogueTariffsTell == Spec => []TariffsTell
<1>1. Inv => TariffsTell
  BY ScalesTell DEF Inv, TariffsTell
<1> QED BY <1>1, Invariant, PTL

-----------------------------------------------------------------------------
(* The sessions of an account.                                             *)

\* The session a login or a verification is about to sign.
Pending == {call[w].session : w \in {v \in Callers : At(v, "sign")}}

\* A version belongs to one password, and no session is ahead of the row.
Current(s) ==
  /\ s.version <= user.version
  /\ s.version = user.version /\ s.by # NoPassword => s.by = user.password

Follows == \A s \in sessions \cup Pending : Current(s)

\* A picture between its upload and its row belongs to one request; a picture
\* to remove is neither the one of the account nor one about to be.
Holds(w) == At(w, "point") \/ At(w, "remove")

Pictured ==
  /\ user.avatar <= uploads
  /\ \A p \in pictures : p <= uploads
  /\ \A w \in Callers : At(w, "point") =>
       /\ call[w].picture \in pictures /\ call[w].picture # user.avatar
       /\ \A v \in Callers : At(v, "point") /\ v # w => call[v].picture # call[w].picture
       /\ \A v \in Callers : Holds(v) => call[v].previous # call[w].picture
  /\ \A w \in Callers : Holds(w) => call[w].previous <= uploads
  /\ \A w \in Callers : At(w, "remove") => call[w].previous # user.avatar

-----------------------------------------------------------------------------
(* Types. *)

LEMMA CallTyped ==
  ASSUME SessionsTypeOK, NEW w \in Callers, NEW c \in CallSet, Goto(w, c)
  PROVE  call' \in [Callers -> CallSet]
BY DEF SessionsTypeOK, Goto

LEMMA CallFields ==
  ASSUME SessionsTypeOK, NEW w \in Callers
  PROVE  /\ At(w, "sign") => call[w].session \in Session
         /\ At(w, "mail") => call[w].link \in Link
         /\ At(w, "reset") => call[w].password \in Passwords
         /\ At(w, "point") => call[w].picture \in Picture /\ call[w].previous \in Picture
         /\ At(w, "remove") => call[w].previous \in Picture
<1>1. call[w] \in CallSet
  BY DEF SessionsTypeOK
<1> QED BY <1>1 DEF CallSet, At

LEMMA RowTyped ==
  ASSUME SessionsTypeOK, NEW w \in Callers
  PROVE  /\ VerifyEmail(w) => user' \in UserRow
         /\ ForgotIssue(w) => user' \in UserRow /\ issued' \in Link
         /\ ResetCommit(w) => user' \in UserRow
         /\ AvatarPoint(w) => user' \in UserRow
         /\ DeleteErase(w) => user' \in UserRow
         /\ DeleteDeactivate(w) => user' \in UserRow
<1> USE DEF UserRow
<1>1. VerifyEmail(w) => user' \in UserRow
  BY DEF SessionsTypeOK, VerifyEmail
<1>2. ForgotIssue(w) => user' \in UserRow /\ issued' \in Link
  <2>1. issued < MaxLinks => issued + 1 \in Link
    BY SessionsAssumption DEF SessionsTypeOK, Link
  <2> QED BY <2>1 DEF SessionsTypeOK, ForgotIssue
<1>3. ResetCommit(w) => user' \in UserRow
  <2>1. 0 \in Link
    BY SessionsAssumption DEF Link
  <2>2. ResetCommit(w) => call[w].password \in Passwords
    BY CallFields DEF ResetCommit
  <2>3. user \in UserRow /\ user.version + 1 \in Nat
    BY DEF SessionsTypeOK
  <2> QED BY <2>1, <2>2, <2>3 DEF ResetCommit
<1>4. AvatarPoint(w) => user' \in UserRow
  BY CallFields DEF SessionsTypeOK, AvatarPoint
<1>5. DeleteErase(w) => user' \in UserRow
  BY DEF SessionsTypeOK, DeleteErase
<1>6. DeleteDeactivate(w) => user' \in UserRow
  BY DEF SessionsTypeOK, DeleteDeactivate
<1> QED BY <1>1, <1>2, <1>3, <1>4, <1>5, <1>6

\* Every row and journal keeps its type, and every request what it holds.
LEMMA SessionsTypeStep == SessionsTypeOK /\ [SessionsNext]_sessionsVars => SessionsTypeOK'
<1> SUFFICES ASSUME SessionsTypeOK, [SessionsNext]_sessionsVars PROVE SessionsTypeOK'
  OBVIOUS
<1> USE SessionsAssumption DEF reset, picture
<1>1. CASE HourPasses
  BY <1>1 DEF HourPasses, SessionsTypeOK, UserRow
<1>2. ASSUME NEW w \in Callers, NEW p \in Passwords, LoginRead(w, p) PROVE SessionsTypeOK'
  <2>1. [pc |-> "sign", session |-> [version |-> user.version, by |-> p]] \in CallSet
    BY DEF CallSet, Session, SessionsTypeOK, UserRow
  <2> QED BY <1>2, <2>1, CallTyped DEF LoginRead, SessionsTypeOK
<1>3. ASSUME NEW w \in Callers, NEW p \in Passwords, NEW l \in mailbox, ResetRead(w, l, p)
      PROVE SessionsTypeOK'
  <2>1. [pc |-> "reset", password |-> p] \in CallSet
    BY DEF CallSet
  <2> QED BY <1>3, <2>1, CallTyped DEF ResetRead, SessionsTypeOK
<1>4. ASSUME NEW w \in Callers,
             Sign(w) \/ VerifyEmail(w) \/ ForgotCount(w) \/ ForgotRecord(w) \/ ForgotIssue(w)
               \/ MailLink(w) \/ ResetCommit(w)
      PROVE SessionsTypeOK'
  <2>1. Idle \in CallSet /\ \A pc \in {"record", "issue"} : [pc |-> pc] \in CallSet
    BY DEF CallSet, Idle
  <2>2. CASE Sign(w)
    BY <2>1, <2>2, CallTyped, CallFields DEF Sign, SessionsTypeOK
  <2>3. CASE VerifyEmail(w)
    <3>1. [pc |-> "sign", session |-> [version |-> user.version, by |-> NoPassword]] \in CallSet
      BY DEF CallSet, Session, SessionsTypeOK, UserRow
    <3> QED BY <2>3, <3>1, CallTyped, RowTyped DEF VerifyEmail, SessionsTypeOK
  <2>4. CASE ForgotCount(w)
    BY <2>1, <2>4, CallTyped DEF ForgotCount, SessionsTypeOK
  <2>5. CASE ForgotRecord(w)
    BY <2>1, <2>5, CallTyped DEF ForgotRecord, SessionsTypeOK
  <2>6. CASE ForgotIssue(w)
    <3>1. user' \in UserRow /\ issued' \in Link
      BY <2>6, RowTyped
    <3>2. [pc |-> "mail", link |-> issued'] \in CallSet
      BY <3>1 DEF CallSet
    <3> QED BY <2>1, <2>6, <3>1, <3>2, CallTyped DEF ForgotIssue, SessionsTypeOK
  <2>7. CASE MailLink(w)
    BY <2>1, <2>7, CallTyped, CallFields DEF MailLink, SessionsTypeOK
  <2>8. CASE ResetCommit(w)
    BY <2>1, <2>8, CallTyped, RowTyped DEF ResetCommit, SessionsTypeOK
  <2> QED BY <1>4, <2>2, <2>3, <2>4, <2>5, <2>6, <2>7, <2>8
<1>5. ASSUME NEW w \in Callers, AvatarUpload(w) \/ AvatarPoint(w) \/ AvatarRemove(w)
      PROVE SessionsTypeOK'
  <2>1. Idle \in CallSet
    BY DEF CallSet, Idle
  <2>2. CASE AvatarUpload(w)
    <3>1. uploads' \in Picture
      BY <2>2 DEF AvatarUpload, SessionsTypeOK, Picture
    <3>2. [pc |-> "point", picture |-> uploads', previous |-> user.avatar] \in CallSet
      BY <3>1 DEF CallSet, SessionsTypeOK, UserRow
    <3> QED BY <2>2, <3>1, <3>2, CallTyped DEF AvatarUpload, SessionsTypeOK
  <2>3. CASE AvatarPoint(w)
    <3>1. [pc |-> "remove", previous |-> call[w].previous] \in CallSet
      BY <2>3, CallFields DEF CallSet, AvatarPoint
    <3> QED BY <2>1, <2>3, <3>1, CallTyped, RowTyped DEF AvatarPoint, SessionsTypeOK
  <2>4. CASE AvatarRemove(w)
    BY <2>1, <2>4, CallTyped DEF AvatarRemove, SessionsTypeOK
  <2> QED BY <1>5, <2>2, <2>3, <2>4
<1>6. ASSUME NEW w \in Callers,
             DemandeAdmit(w) \/ DemandeCreate(w) \/ DeleteCount(w) \/ DeleteErase(w)
               \/ DeleteDeactivate(w)
      PROVE SessionsTypeOK'
  <2>1. Idle \in CallSet /\ \A pc \in {"demande", "erase", "deactivate"} : [pc |-> pc] \in CallSet
    BY DEF CallSet, Idle
  <2>2. CASE DemandeAdmit(w)
    BY <2>1, <2>2, CallTyped DEF DemandeAdmit, SessionsTypeOK
  <2>3. CASE DemandeCreate(w)
    BY <2>1, <2>3, CallTyped DEF DemandeCreate, SessionsTypeOK
  <2>4. CASE DeleteCount(w)
    BY <2>1, <2>4, CallTyped DEF DeleteCount, SessionsTypeOK
  <2>5. CASE DeleteErase(w)
    <3>1. user' \in UserRow /\ call' \in [Callers -> CallSet]
      BY <2>1, <2>5, CallTyped, RowTyped DEF DeleteErase
    <3>2. demandes' \in Nat
      BY <2>5 DEF DeleteErase, SessionsTypeOK
    <3> QED BY <2>5, <3>1, <3>2 DEF DeleteErase, SessionsTypeOK
  <2>6. CASE DeleteDeactivate(w)
    BY <2>1, <2>6, CallTyped, RowTyped DEF DeleteDeactivate, SessionsTypeOK
  <2> QED BY <1>6, <2>2, <2>3, <2>4, <2>5, <2>6
<1>7. CASE UNCHANGED sessionsVars
  BY <1>7 DEF sessionsVars, SessionsTypeOK
<1> QED BY <1>1, <1>2, <1>3, <1>4, <1>5, <1>6, <1>7 DEF SessionsNext

\* TypeOK: every variable keeps its type, whatever requests cross.
THEOREM SessionsTyped == SessionsSpec => []SessionsTypeOK
<1>1. SessionsInit => SessionsTypeOK
  BY SessionsAssumption
  DEF SessionsInit, SessionsTypeOK, UserRow, Session, Link, Picture, CallSet, Idle
<1> QED BY <1>1, SessionsTypeStep, PTL DEF SessionsSpec

-----------------------------------------------------------------------------
(* What each action does to the calls that the invariants look at. *)

LEMMA PcMoves ==
  ASSUME SessionsTypeOK, NEW w \in Callers, NEW c, Goto(w, c)
  PROVE  call'[w] = c /\ \A v \in Callers \ {w} : call'[v] = call[v]
BY DEF SessionsTypeOK, Goto

\* The version of the row only moves with the password, and forward.
LEMMA RowMoves ==
  ASSUME SessionsTypeOK, NEW w \in Callers,
         VerifyEmail(w) \/ ForgotIssue(w) \/ AvatarPoint(w) \/ DeleteErase(w) \/ DeleteDeactivate(w)
  PROVE  user'.version = user.version /\ user'.password = user.password
BY DEF SessionsTypeOK, UserRow, VerifyEmail, ForgotIssue, AvatarPoint, DeleteErase, DeleteDeactivate

\* A step that signs nothing new and leaves password and version alone.
LEMMA FollowsKept ==
  ASSUME Follows, sessions' \subseteq sessions \cup Pending, Pending' \subseteq sessions \cup Pending,
         user'.version = user.version, user'.password = user.password
  PROVE  Follows'
BY DEF Follows, Current

LEMMA PendingKept ==
  ASSUME SessionsTypeOK, NEW w \in Callers, NEW c, Goto(w, c), c.pc # "sign"
  PROVE  Pending' \subseteq Pending
<1>1. ASSUME NEW v \in Callers, call'[v].pc = "sign" PROVE v # w /\ call'[v] = call[v]
  BY <1>1, PcMoves
<1> QED BY <1>1 DEF Pending, At

LEMMA FollowsStep == SessionsTypeOK /\ Follows /\ [SessionsNext]_sessionsVars => Follows'
<1> SUFFICES ASSUME SessionsTypeOK, Follows, [SessionsNext]_sessionsVars PROVE Follows'
  OBVIOUS
<1> USE DEF reset, picture
<1>1. CASE HourPasses
  <2>1. user'.version = user.version /\ user'.password = user.password
    BY <1>1 DEF HourPasses, SessionsTypeOK, UserRow
  <2> QED BY <1>1, <2>1, FollowsKept DEF HourPasses, Pending, At
<1>2. ASSUME NEW w \in Callers,
             (\E p \in Passwords : LoginRead(w, p)) \/ VerifyEmail(w)
      PROVE Follows'
  <2>1. PICK by \in Passwords \cup {NoPassword} :
          /\ Goto(w, [pc |-> "sign", session |-> [version |-> user.version, by |-> by]])
          /\ by # NoPassword => by = user.password
    BY <1>2 DEF LoginRead, VerifyEmail
  <2>2. /\ sessions' = sessions
        /\ user'.version = user.version /\ user'.password = user.password
    BY <1>2, RowMoves DEF LoginRead, VerifyEmail
  <2> DEFINE s == [version |-> user.version, by |-> by]
  <2>3. Pending' \subseteq Pending \cup {s}
    <3>1. ASSUME NEW v \in Callers, call'[v].pc = "sign", v # w
          PROVE  call[v].pc = "sign" /\ call'[v] = call[v]
      BY <2>1, <3>1, PcMoves
    <3>2. call'[w].session = s
      BY <2>1, PcMoves
    <3> QED BY <3>1, <3>2 DEF Pending, At
  <2>4. s.version = user.version /\ (s.by # NoPassword => s.by = user.password) /\ user.version \in Nat
    BY <2>1 DEF SessionsTypeOK, UserRow
  <2> HIDE DEF s
  <2> QED BY <2>2, <2>3, <2>4 DEF Follows, Current
<1>3. ASSUME NEW w \in Callers, Sign(w) PROVE Follows'
  <2>1. call[w].session \in Pending
    BY <1>3 DEF Sign, Pending
  <2>2. Pending' \subseteq Pending
    BY <1>3, PendingKept DEF Sign, Idle
  <2> QED BY <1>3, <2>1, <2>2, FollowsKept DEF Sign
<1>4. ASSUME NEW w \in Callers, ResetCommit(w) PROVE Follows'
  <2>1. Pending' \subseteq Pending /\ sessions' = sessions
    BY <1>4, PendingKept DEF ResetCommit, Idle
  <2>2. CASE user.exists
    <3>1. user'.version = user.version + 1 /\ user.version \in Nat
      BY <1>4, <2>2 DEF ResetCommit, SessionsTypeOK, UserRow
    <3>2. \A s \in sessions \cup Pending : s.version \in Nat
      BY CallFields DEF SessionsTypeOK, Session, Pending
    <3> QED BY <2>1, <3>1, <3>2 DEF Follows, Current
  <2>3. CASE ~user.exists
    BY <1>4, <2>1, <2>3, FollowsKept DEF ResetCommit
  <2> QED BY <2>2, <2>3
<1>5. ASSUME NEW w \in Callers,
             \/ ForgotCount(w) \/ ForgotRecord(w) \/ ForgotIssue(w) \/ MailLink(w)
             \/ \E l \in mailbox, p \in Passwords : ResetRead(w, l, p)
             \/ AvatarUpload(w) \/ AvatarPoint(w) \/ AvatarRemove(w) \/ DemandeAdmit(w)
             \/ DemandeCreate(w) \/ DeleteCount(w) \/ DeleteErase(w) \/ DeleteDeactivate(w)
      PROVE Follows'
  <2>1. sessions' = sessions
    BY <1>5 DEF ForgotCount, ForgotRecord, ForgotIssue, MailLink, ResetRead, AvatarUpload,
         AvatarPoint, AvatarRemove, DemandeAdmit, DemandeCreate, DeleteCount, DeleteErase,
         DeleteDeactivate
  <2>2. user'.version = user.version /\ user'.password = user.password
    BY <1>5, RowMoves DEF ForgotCount, ForgotRecord, MailLink, ResetRead, AvatarUpload,
         AvatarRemove, DemandeAdmit, DemandeCreate, DeleteCount
  <2>3. Pending' \subseteq Pending
    <3>1. CASE ForgotCount(w) \/ ForgotRecord(w) \/ MailLink(w) \/ AvatarUpload(w) \/ AvatarRemove(w)
      BY <3>1, PendingKept
      DEF ForgotCount, ForgotRecord, MailLink, AvatarUpload, AvatarRemove, Idle
    <3>2. CASE ForgotIssue(w) \/ AvatarPoint(w)
      BY <3>2, PendingKept DEF ForgotIssue, AvatarPoint, Idle
    <3>3. CASE \E l \in mailbox, p \in Passwords : ResetRead(w, l, p)
      BY <3>3, PendingKept DEF ResetRead
    <3>4. CASE DemandeAdmit(w) \/ DemandeCreate(w) \/ DeleteErase(w) \/ DeleteDeactivate(w)
      BY <3>4, PendingKept DEF DemandeAdmit, DemandeCreate, DeleteErase, DeleteDeactivate, Idle
    <3>5. CASE DeleteCount(w)
      <4>1. PICK pc \in {"erase", "deactivate"} : Goto(w, [pc |-> pc])
        BY <3>5 DEF DeleteCount
      <4> QED BY <4>1, PendingKept
    <3> QED BY <1>5, <3>1, <3>2, <3>3, <3>4, <3>5
  <2> QED BY <2>1, <2>2, <2>3, FollowsKept
<1>6. CASE UNCHANGED sessionsVars
  BY <1>6, FollowsKept DEF sessionsVars, Pending, At
<1> QED BY <1>1, <1>2, <1>3, <1>4, <1>5, <1>6 DEF SessionsNext

\* SessionFollowsPassword: no accepted session was opened with a password
\* that is no longer the one of the account.
THEOREM NoStaleSession == SessionsSpec => []SessionFollowsPassword
<1>1. SessionsInit => SessionsTypeOK /\ Follows
  <2>1. SessionsInit => SessionsTypeOK
    BY SessionsAssumption
    DEF SessionsInit, SessionsTypeOK, UserRow, Session, Link, Picture, CallSet, Idle
  <2>2. SessionsInit => Follows
    BY DEF SessionsInit, Follows, Current, Pending, At, Idle
  <2> QED BY <2>1, <2>2
<1>2. Follows => SessionFollowsPassword
  BY DEF Follows, Current, SessionFollowsPassword, Accepted
<1> QED BY <1>1, <1>2, SessionsTypeStep, FollowsStep, PTL DEF SessionsSpec

-----------------------------------------------------------------------------
(* The picture of the account. *)

LEMMA PictureTypes ==
  ASSUME SessionsTypeOK
  PROVE  /\ user.avatar \in Nat /\ uploads \in Nat /\ pictures \subseteq Nat
         /\ \A w \in Callers : At(w, "point") => call[w].picture \in Nat
         /\ \A w \in Callers : Holds(w) => call[w].previous \in Nat
BY CallFields, SessionsAssumption DEF SessionsTypeOK, UserRow, Picture, Holds

LEMMA PicturedKept ==
  ASSUME SessionsTypeOK, Pictured, NEW w \in Callers, NEW c, Goto(w, c), c.pc \notin {"point", "remove"},
         UNCHANGED picture, user'.avatar = user.avatar
  PROVE  Pictured'
<1>1. ASSUME NEW v \in Callers, call'[v].pc \in {"point", "remove"} PROVE call'[v] = call[v]
  BY <1>1, PcMoves
<1> QED BY <1>1 DEF Pictured, Holds, At, picture

LEMMA PicturedStep == SessionsTypeOK /\ Pictured /\ [SessionsNext]_sessionsVars => Pictured'
<1> SUFFICES ASSUME SessionsTypeOK, Pictured, [SessionsNext]_sessionsVars PROVE Pictured'
  OBVIOUS
<1> USE DEF reset
<1>1. CASE HourPasses
  <2>1. user'.avatar = user.avatar
    BY <1>1 DEF HourPasses, SessionsTypeOK, UserRow
  <2> QED BY <1>1, <2>1 DEF HourPasses, Pictured, Holds, At, picture
<1>2. ASSUME NEW w \in Callers, AvatarUpload(w) PROVE Pictured'
  <2>1. /\ uploads' = uploads + 1 /\ pictures' = pictures \cup {uploads'} /\ user' = user
        /\ call'[w] = [pc |-> "point", picture |-> uploads', previous |-> user.avatar]
        /\ \A v \in Callers \ {w} : call'[v] = call[v]
    BY <1>2, PcMoves DEF AvatarUpload
  <2>2. /\ call'[w].pc = "point" /\ call'[w].picture = uploads + 1
        /\ call'[w].previous = user.avatar
    BY <2>1
  <2>3. \A v \in Callers : At(v, "point") => call[v].picture <= uploads
    BY DEF Pictured
  <2> QED BY <2>1, <2>2, <2>3, PictureTypes DEF Pictured, Holds, At
<1>3. ASSUME NEW w \in Callers, AvatarPoint(w) PROVE Pictured'
  <2>1. CASE user.exists
    <3>1. /\ user'.avatar = call[w].picture /\ UNCHANGED picture
          /\ call'[w].pc = "remove" /\ call'[w].previous = call[w].previous
          /\ \A v \in Callers \ {w} : call'[v] = call[v]
      BY <1>3, <2>1, PcMoves DEF AvatarPoint, SessionsTypeOK, UserRow
    <3>2. At(w, "point")
      BY <1>3 DEF AvatarPoint
    <3> QED BY <3>1, <3>2, PictureTypes DEF Pictured, Holds, At, picture
  <2>2. CASE ~user.exists
    BY <1>3, <2>2, PicturedKept DEF AvatarPoint, Idle
  <2> QED BY <2>1, <2>2
<1>4. ASSUME NEW w \in Callers, AvatarRemove(w) PROVE Pictured'
  <2>1. /\ pictures' \subseteq pictures /\ pictures \ {call[w].previous} \subseteq pictures'
        /\ uploads' = uploads /\ user' = user /\ call'[w].pc = "idle"
        /\ \A v \in Callers \ {w} : call'[v] = call[v]
    BY <1>4, PcMoves DEF AvatarRemove, Idle
  <2>2. Holds(w)
    BY <1>4 DEF AvatarRemove, Holds
  <2> QED BY <2>1, <2>2 DEF Pictured, Holds, At
<1>5. ASSUME NEW w \in Callers,
             \/ \E p \in Passwords : LoginRead(w, p)
             \/ Sign(w) \/ VerifyEmail(w) \/ ForgotCount(w) \/ ForgotRecord(w) \/ ForgotIssue(w)
             \/ MailLink(w)
             \/ \E l \in mailbox, p \in Passwords : ResetRead(w, l, p)
             \/ ResetCommit(w)
      PROVE Pictured'
  <2>1. user'.avatar = user.avatar /\ UNCHANGED picture
    BY <1>5 DEF LoginRead, Sign, VerifyEmail, ForgotCount, ForgotRecord, ForgotIssue, MailLink,
         ResetRead, ResetCommit, SessionsTypeOK, UserRow
  <2>2. CASE Sign(w) \/ MailLink(w) \/ ResetCommit(w) \/ ForgotCount(w) \/ ForgotRecord(w)
    BY <2>1, <2>2, PicturedKept DEF Sign, MailLink, ResetCommit, ForgotCount, ForgotRecord, Idle
  <2>3. CASE ForgotIssue(w)
    BY <2>1, <2>3, PicturedKept DEF ForgotIssue, Idle
  <2>4. CASE \/ \E l \in mailbox, p \in Passwords : ResetRead(w, l, p)
             \/ \E p \in Passwords : LoginRead(w, p)
             \/ VerifyEmail(w)
    BY <2>1, <2>4, PicturedKept DEF ResetRead, LoginRead, VerifyEmail
  <2> QED BY <1>5, <2>2, <2>3, <2>4
<1>6. ASSUME NEW w \in Callers,
             DemandeAdmit(w) \/ DemandeCreate(w) \/ DeleteCount(w) \/ DeleteErase(w)
               \/ DeleteDeactivate(w)
      PROVE Pictured'
  <2>1. user'.avatar = user.avatar /\ UNCHANGED picture
    BY <1>6 DEF DemandeAdmit, DemandeCreate, DeleteCount, DeleteErase, DeleteDeactivate, SessionsTypeOK,
         UserRow
  <2>2. CASE DemandeAdmit(w) \/ DemandeCreate(w) \/ DeleteErase(w) \/ DeleteDeactivate(w)
    BY <2>1, <2>2, PicturedKept DEF DemandeAdmit, DemandeCreate, DeleteErase, DeleteDeactivate, Idle
  <2>3. CASE DeleteCount(w)
    <3>1. PICK pc \in {"erase", "deactivate"} : Goto(w, [pc |-> pc])
      BY <2>3 DEF DeleteCount
    <3> QED BY <2>1, <3>1, PicturedKept
  <2> QED BY <1>6, <2>2, <2>3
<1>7. CASE UNCHANGED sessionsVars
  BY <1>7 DEF sessionsVars, Pictured, Holds, At, picture
<1> QED BY <1>1, <1>2, <1>3, <1>4, <1>5, <1>6, <1>7 DEF SessionsNext

\* AvatarExists needs one more conjunct: the picture of the row is stored.
Shown == Pictured /\ AvatarExists

LEMMA ShownStep == SessionsTypeOK /\ Shown /\ [SessionsNext]_sessionsVars => AvatarExists'
<1> SUFFICES ASSUME SessionsTypeOK, Pictured, AvatarExists, [SessionsNext]_sessionsVars PROVE AvatarExists'
  BY DEF Shown
<1> USE DEF reset, picture, SessionsTypeOK, UserRow, AvatarExists
<1>1. ASSUME NEW w \in Callers, AvatarUpload(w) PROVE AvatarExists'
  BY <1>1 DEF AvatarUpload
<1>2. ASSUME NEW w \in Callers, AvatarPoint(w) PROVE AvatarExists'
  BY <1>2 DEF AvatarPoint, Pictured
<1>3. ASSUME NEW w \in Callers, AvatarRemove(w) PROVE AvatarExists'
  BY <1>3 DEF AvatarRemove, Pictured
<1>4. ASSUME user'.avatar = user.avatar, pictures' = pictures PROVE AvatarExists'
  BY <1>4
<1>5. CASE HourPasses \/ UNCHANGED sessionsVars
  BY <1>4, <1>5 DEF HourPasses, sessionsVars
<1>6. ASSUME NEW w \in Callers,
             \/ \E p \in Passwords : LoginRead(w, p)
             \/ Sign(w) \/ VerifyEmail(w) \/ ForgotCount(w) \/ ForgotRecord(w) \/ ForgotIssue(w)
             \/ MailLink(w)
             \/ \E l \in mailbox, p \in Passwords : ResetRead(w, l, p)
             \/ ResetCommit(w)
             \/ DemandeAdmit(w) \/ DemandeCreate(w) \/ DeleteCount(w) \/ DeleteErase(w)
             \/ DeleteDeactivate(w)
      PROVE AvatarExists'
  BY <1>4, <1>6 DEF LoginRead, Sign, VerifyEmail, ForgotCount, ForgotRecord, ForgotIssue, MailLink,
       ResetRead, ResetCommit, DemandeAdmit, DemandeCreate, DeleteCount, DeleteErase,
       DeleteDeactivate
<1> QED BY <1>1, <1>2, <1>3, <1>5, <1>6 DEF SessionsNext

\* AvatarExists: no crossing of uploads removes the picture the account shows.
THEOREM PictureStays == SessionsSpec => []AvatarExists
<1>1. SessionsInit => SessionsTypeOK /\ Shown
  <2>1. SessionsInit => SessionsTypeOK
    BY SessionsAssumption
    DEF SessionsInit, SessionsTypeOK, UserRow, Session, Link, Picture, CallSet, Idle
  <2>2. SessionsInit => Shown
    BY DEF SessionsInit, Shown, Pictured, Holds, At, Idle, AvatarExists
  <2> QED BY <2>1, <2>2
<1>2. SessionsTypeOK /\ Shown /\ [SessionsNext]_sessionsVars => Shown'
  BY PicturedStep, ShownStep DEF Shown
<1> QED BY <1>1, <1>2, SessionsTypeStep, PTL DEF SessionsSpec, Shown
=============================================================================
