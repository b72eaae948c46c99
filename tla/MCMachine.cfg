CONSTANT Loadable <- Family
SPECIFICATION Spec
INVARIANT MeaningKept EmptyBetweenStatements
PROPERTY EveryProgramEnds
