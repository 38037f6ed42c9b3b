SPECIFICATION Spec
CONSTANTS
  User = "user"
  Family <- MCFamily
  SingleValued = {"role", "desk"}
  Structured = {"plan"}
  Pairs <- MCPairs
  Unbounded = Unbounded
  MaxGap = 1
  ValidAt <- MCValidAt
  NoInstant = NoInstant
  MaxDecisions = 2
  MaxMoves = 2
CHECK_DEADLOCK FALSE
INVARIANTS
  VerdictsHavePlans
  SidesAreAlike
  OutsidersStayOut
PROPERTIES
  PlansSettle
