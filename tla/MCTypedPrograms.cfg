CONSTANTS
  Programs <- MCPrograms
  MaxSteps = 4
SPECIFICATION Spec
INVARIANT FitsItsType
INVARIANT NothingRefused
INVARIANT OverridesReplace
INVARIANT SuperGoesUp
INVARIANT SlotMeansName
INVARIANT PlanOfStoresMeansBody
CHECK_DEADLOCK FALSE
