SPECIFICATION Spec
CONSTANTS
  p1 = p1
  p2 = p2
  p3 = p3
  none = none
  Policy <- Tolerances
  Policies <- ThreePolicies
  Foreign = none
  Citations <- SomeCitations
  Settings <- AllSettings
  Inputs <- SplitInputs
INVARIANTS
  QuantityWithinReceipt
