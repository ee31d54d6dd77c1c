\* Three calls on one catalogue, in any order and overlapping.
SPECIFICATION Spec
CONSTANTS
  q1 = q1  q2 = q2  q3 = q3
  None = None
  Rows <- MCRows
  Kind <- MCKind
  Parent <- MCParent
  Line <- MCLine
  Seeded = {"d1", "b1", "i1"}
  Openings <- MCOpenings
  Catchall = {"b2"}
  Labels = {"x", "y"}
  Bounds = {"min", "reference", "service"}
  Amounts = {1, 2}
  Posted <- MCPosted
  Edits <- MCEdits
  Requests = {q1, q2, q3}
SYMMETRY Symmetry
CHECK_DEADLOCK FALSE
INVARIANTS TypeOK TariffsTell CatalogueCoherent OfferIsAccepted
PROPERTIES NothingLost
