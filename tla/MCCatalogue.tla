---------------------------- MODULE MCCatalogue ----------------------------
(* A small catalogue for TLC: two domains, two brands with a model each.   *)
EXTENDS Catalogue, TLC

CONSTANTS q1, q2, q3

MCRows == {"d1", "d2", "b1", "b2", "m1", "m2", "p1", "g1", "i1", "i2", "f1", "c1", "z1"}

MCKind == [r \in MCRows |->
    CASE r \in {"d1", "d2"} -> "domain"
      [] r \in {"b1", "b2"} -> "brand"
      [] r \in {"m1", "m2"} -> "model"
      [] r = "p1" -> "problem"
      [] r = "g1" -> "diagnostic"
      [] r \in {"i1", "i2"} -> "intervention"
      [] r = "f1" -> "family"
      [] r = "c1" -> "city"
      [] r = "z1" -> "zone"]

MCParent == [r \in MCRows |->
    CASE r \in {"b1", "b2", "p1"} -> "d1"
      [] r = "m1" -> "b1"
      [] r = "m2" -> "b2"
      [] r = "g1" -> "p1"
      [] r \in {"i1", "i2"} -> "g1"
      [] r = "z1" -> "c1"
      [] OTHER -> None]

MCLine == [r \in MCRows |->
    CASE r \in {"b1", "b2", "p1"} -> {"d1"}
      [] r = "m1" -> {"b1", "d1"}
      [] r = "m2" -> {"b2", "d1"}
      [] r = "g1" -> {"p1", "d1"}
      [] r \in {"i1", "i2"} -> {"g1", "p1", "d1"}
      [] r = "z1" -> {"c1"}
      [] OTHER -> {}]

MCLabel == [r \in MCRows |-> IF r \in {"b2", "d2", "i2"} THEN "y" ELSE "x"]

Sheet(a, b) == [prices |-> [c \in Bounds |-> CASE c = "min"       -> a
                                            [] c = "reference" -> b
                                            [] OTHER           -> None], active |-> TRUE]

Told(n)   == [i \in {"i1", "i2"} |->
                IF i = "i2" THEN NoTariff
                ELSE [at |-> "live", id |-> 1, sheet |-> Sheet(1, 2), entries |-> n, told |-> Sheet(1, 2)]]
Untold    == [i \in {"i1", "i2"} |-> NoTariff]
Anchor(a) == [r \in MCRows |-> IF r = "p1" THEN a ELSE NoAnchor]
M1        == [brand |-> "b1", model |-> "m1"]

\* A complete catalogue with a tariff; what a seed leaves that stopped halfway,
\* with a tariff of no journal; one of two interventions, of which one has no
\* tariff; one with no problem; and a city with a zone.
Places == {"c1", "z1"}

MCOpenings ==
    {[rows |-> MCRows \ (Places \cup {"d2", "i2", "f1"}),
      gone |-> Places \cup {"d2", "i2", "f1"}, label |-> MCLabel,
      anchor |-> Anchor(M1), tariff |-> Told(1)],
     [rows |-> {"d1", "p1", "g1", "i1"}, gone |-> Places \cup {"i2"}, label |-> MCLabel,
      anchor |-> Anchor(NoAnchor), tariff |-> Told(0)],
     [rows |-> {"d1", "b1", "m1", "p1", "g1", "i1", "i2"},
      gone |-> Places \cup {"d2", "b2", "m2", "f1"}, label |-> MCLabel,
      anchor |-> Anchor(M1), tariff |-> Told(1)],
     [rows |-> {"d1", "b1", "m1", "f1"}, gone |-> Places \cup {"i2"}, label |-> MCLabel,
      anchor |-> Anchor(NoAnchor), tariff |-> Untold],
     [rows |-> Places, gone |-> MCRows \ Places, label |-> MCLabel,
      anchor |-> Anchor(NoAnchor), tariff |-> Untold]}

\* A tariff is created with a reference and perhaps a minimum, or with a fee alone.
MCPosted == {p \in Prices : p["service"] = None /\ p["reference"] # None}
            \cup {[c \in Bounds |-> IF c = "service" THEN 1 ELSE None]}

\* An update of one amount, of which only those that are ordered have two values.
MCEdits == {[fields |-> {b}, prices |-> [c \in Bounds |-> a], active |-> "same"] :
                b \in Bounds \ {"service"}, a \in Amounts}
           \cup {[fields |-> {"service"}, prices |-> [c \in Bounds |-> 1], active |-> "same"]}
           \cup {[fields |-> {}, prices |-> [c \in Bounds |-> None], active |-> "off"]}

Symmetry == Permutations(Requests)
=============================================================================
