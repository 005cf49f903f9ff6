SPECIFICATION Spec
CONSTANTS
  Handles = {h1, h2}
  ImplStops = TRUE
CHECK_DEADLOCK FALSE
PROPERTY
  LastHandleStops
