CONSTANT MaxFailures = 1
SPECIFICATION ExitSpec
CHECK_DEADLOCK FALSE
INVARIANTS AtMostOneDestination OutcomeWasAsked PowerButtonArmed OneAtATime StopsCleanly
PROPERTIES DestinationFrozen ShutdownCarriedOut ExitIsReached
