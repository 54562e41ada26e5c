CONSTANTS
  NumWorkers = 4
  MaxRuns = 3
SPECIFICATION Spec
INVARIANTS
  EveryTaskOnce
  BlockedHasWaker
PROPERTIES
  TaskNotInUse
  DestructorReturns
  ImplementsForkJoin
