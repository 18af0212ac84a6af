CONSTANT MaxTrouble = 2
SPECIFICATION Spec
PROPERTY InstallationStops
CHECK_DEADLOCK FALSE
