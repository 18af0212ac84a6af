CONSTANT MaxTrouble = 6
SPECIFICATION Spec
INVARIANTS TypeOK NothingLeftOver InstallationLasts
PROPERTIES ShutdownEnds CollectsInTheEnd
CHECK_DEADLOCK FALSE
