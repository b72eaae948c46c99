\* The checker comes back to the pair of types it is comparing.
CONSTANTS
  Programs <- MCReturning
  MaxSteps = 2
SPECIFICATION Spec
INVARIANT CheckerAnswers
CHECK_DEADLOCK FALSE
