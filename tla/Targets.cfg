SPECIFICATION MCSpec
CONSTANTS
  q1 = q1
  q2 = q2
  i1 = i1
  i2 = i2
  sc1 = sc1
  sc2 = sc2
  a1 = a1
  a2 = a2
  d1 = d1
  d2 = d2
  p1 = p1
  Requests = {q1, q2}
  Intents = {i1, i2}
  AttemptIds = {a1, a2}
  Scopes = {sc1, sc2}
  Units = {1, 2}
  Payments = {p1}
  Deliveries = {d1, d2}
  DeliveryIds = {a1, a2}
  FaultPlanInputs <- OneTriggerEach
  MaxDisturbances = 3
SYMMETRY Interchangeable
INVARIANTS
  StockConserved
  SecureSellsOnlyStock
  OutcomesTruthful
  FaultBudgetKept
  WalletConserved
  CreditedOnce
  DeliveryOutcomesTruthful
  NoPhantomBalance
CHECK_DEADLOCK FALSE
