SPECIFICATION MCSpec
CONSTANTS
  e1 = e1
  e2 = e2
  Redacted = Redacted
  None = None
  Unusable = Unusable
  Own = Own
  Foreign = Foreign
  Item = Item
  Other = Other
  Queries <- MCQueries
  RoleOf <- MCRoleOf
  Order <- MCOrder
  CausalEdges <- MCEdges
  MaxAccepted = 1
  Baseline0 = 1
  MaxOddities = 1
  Effects = {e1, e2}
  Shapes = {"clean", "other", "nolink", "noident", "negative", "foreign", "twice"}
  Strays = {"none", "undeclared", "outside", "mixed", "unreadable"}
  MaxToken = 3
  DeclaredScope = "s"
  SetupScopes = {"s", "o"}
SYMMETRY Interchangeable
INVARIANTS
  FailProven
  PassTruthful
  CoverageComplete
  AnchorOwned
PROPERTIES
  FailNeverBecomesPass
CHECK_DEADLOCK FALSE
