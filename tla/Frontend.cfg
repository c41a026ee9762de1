CONSTANT Vars <- MCVars
SPECIFICATION Spec
INVARIANTS
  PhiPerPredecessor
  MinimalPhis
  RejectedPrograms
  IterationSeen
PROPERTIES
  Refines
CHECK_DEADLOCK FALSE
