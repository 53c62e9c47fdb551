CONSTANTS
  k1 = k1
  k2 = k2
  k3 = k3
  Keys = {k1, k2, k3}
  Batch = 1
  Setups <- MCSetups
SPECIFICATION IoFairSpec
INVARIANTS
  OnePlace
  AddressKnown
PROPERTIES
  EveryRequestServed
