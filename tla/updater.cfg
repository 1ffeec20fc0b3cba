SPECIFICATION Spec
CONSTANT MaxFailures = 5
INVARIANTS AnInstallationSurvives OneFailureIsRecovered
PROPERTIES KeptUntilAlive OthersUntouched UpdateEnds
CHECK_DEADLOCK FALSE
