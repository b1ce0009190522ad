SPECIFICATION MainSpec
CONSTANT HasMouse = TRUE
PROPERTY SaveServed
CHECK_DEADLOCK FALSE
