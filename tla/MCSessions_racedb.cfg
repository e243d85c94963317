CONSTANTS
  Image = {"exe"}
  PseudoImage = "PSEUDO_IMAGE"
  Place = {"load", "store"}
  ImageOf <- MCImageOf
  OffsetOf <- MCOffsetOf
  LineOf <- MCLineOf
  t1 = t1
  t2 = t2
  Thread = {t1, t2}
  TypeOf <- MCTypeOf
  Group = 2
  MaxRuns = 2
  MaxRaces = 2
SPECIFICATION Spec
SYMMETRY Symmetry
INVARIANTS
  RacesNamed
  ReportsOwnRaces
CHECK_DEADLOCK FALSE
