\* A constructor of this.field += parameter becomes a plan that stores the parameter.
CONSTANTS
  Programs <- MCPlans
  MaxSteps = 2
SPECIFICATION Spec
INVARIANT PlanMeansBody
CHECK_DEADLOCK FALSE
