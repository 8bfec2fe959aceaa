SPECIFICATION Spec
CONSTANT MaxTasks = 4
INVARIANTS RejectedIffCyclic DependenciesFirst FailuresSpread
CHECK_DEADLOCK FALSE
