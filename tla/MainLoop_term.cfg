SPECIFICATION MainSpec
CONSTANT HasMouse = FALSE
PROPERTY TermEnds
CHECK_DEADLOCK FALSE
